---- MODULE Spec2Model ----
(***************************************************************************)
(* Client-side caches of the PTT dashboards.                               *)
(*                                                                         *)
(*  - ptt_dashboard_statistics (src/unnamed/part_009): reactive            *)
(*    statistics object, pending-promise bookkeeping, both loaders wrapped *)
(*    in the web framework's memoize().                                    *)
(*  - ptt_home (src/addons/ptt_super_dashboard/static/src/home_service.js):*)
(*    home summary cached for CACHE_DURATION milliseconds.                 *)
(*                                                                         *)
(* JavaScript runs one task at a time: every action below is one task (a   *)
(* service call up to its first await, or the continuation that runs when  *)
(* a backend call settles).                                                *)
(***************************************************************************)
EXTENDS Integers, Sequences, FiniteSets, Bags, TLC

\* ------------------------------------------------------------------ bounds
MaxRepId == 2      \* sales rep ids are 1..MaxRepId
MaxCalls == 3      \* load calls issued to the statistics service
MaxInv == 1        \* invalidateCache() calls on the statistics service
MaxHomeFetches == 2 \* get_home_summary backend calls made by the home service
MaxHomeInv == 1    \* invalidateCache() runs of the home service, direct or
                   \* at the end of a personal-todo mutation
TickMs == 30000    \* milliseconds the clock advances in one step
MaxTicks == 3      \* the clock stops at TickMs * MaxTicks
MaxLoads == 3      \* loadData calls of the sales dashboard
MaxCalLoads == 3   \* loadCalendarData calls of the event calendar
MaxAttempts == 12  \* calls of mount() by the back button service
MaxOps == 2        \* handlers and timer callbacks of the project dashboard that issue an RPC
MaxPages == 2      \* pages of a table of the project dashboard
MaxMetrics == 3    \* metric records of the dashboard editor
MaxEditorOps == 1   \* toggleVisibility and saveChanges calls on the dashboard editor
MaxDrops == 1      \* drops on the dashboard editor that issue a write
MaxCheckTimers == 3 \* pending 100 ms timers of the back button's route handler

RepIds == 1..MaxRepId
OVERVIEW == 0      \* key of the overview entry; a rep entry has key repId
Keys == {OVERVIEW} \cup RepIds

VARIABLES
    \* statistics service
    overview,          \* statistics.overview
    reps,              \* statistics.reps
    loading,           \* statistics.loading
    overviewPromise,   \* let overviewPromise
    repPromises,       \* const repPromises = new Map()
    memoOverview,      \* memoize() cache of loadStatistics
    memoRep,           \* memoize() cache of loadRepStatistics
    fetches,           \* per key, the backend fetch sequences started so far
    calls,             \* per key, the load calls issued so far and the promise each got
    invCount,          \* invalidateCache() calls so far
    last,              \* per key, the latest fetch/invalidate event
    win,               \* per key, how often invalidateCache() cleared a cached value
    \* home service
    homeData,          \* state.homeData
    salesData,         \* state.salesData
    calendarData,      \* state.calendarData
    lastFetch,         \* state.lastFetch (0: null)
    homeLoading,       \* state.loading
    clock,             \* Date.now()
    hpending,          \* get_home_summary backend calls in flight
    nFetch,            \* get_home_summary backend calls made so far
    homeDataInv,       \* hInv when the call that fetched state.homeData was issued
    lastCall,          \* the latest getHomeSummary() call and what it found
    todos,             \* personal-todo mutations in flight, per operation
    hInv,              \* invalidateCache() runs of the home service so far
    \* dashboard controller (PttDashboardController)
    activeTab,         \* state.activeTab
    kpis,              \* state.kpis, with the key of the entry it was taken from
    ctlLoading,        \* state.loading
    ctlError,          \* state.error is set
    kdone,             \* per key, the loadKpis calls that ran past their await
    \* sales dashboard (SalesDashboard)
    sdData,            \* state.data: the answer, with the request it answers
    sdLoading,         \* state.loading
    sdStartDate,       \* state.startDate
    sdEndDate,         \* state.endDate
    sdDateRange,       \* state.dateRange
    sdReqs,            \* get_sales_dashboard_data calls in flight
    sdN,               \* loadData calls made so far
    sdFailed,          \* a loadData call has failed
    \* event calendar (EventCalendarFull)
    calEvents,         \* state.events
    calStages,         \* state.stages (ids)
    calVisible,        \* state.visibleStages
    calSelectedDate,   \* state.selectedDate (0: null)
    calSelectedEvents, \* state.selectedDateEvents
    calMyOnly,         \* state.myEventsOnly
    calMonth,          \* month of state.currentDate, counted from January
    calDateRange,      \* state.dateRange
    calStartDate,      \* state.startDate
    calEndDate,        \* state.endDate
    calLoading,        \* state.loading
    calReqs,           \* get_event_calendar_data calls in flight
    calN,              \* loadCalendarData calls made so far
    \* back button service (ptt_dashboard_back_button)
    bbComponent,       \* let component ("none": null)
    bbMounted,         \* let mounted
    mountRetries,      \* let mountRetries
    bbTimers,          \* setTimeout(mountButton, ...) callbacks not yet run
    bbUrl,             \* window.location.href
    bbChecked,         \* checkAndUpdate has run since the URL last changed
    bbAttempts,        \* calls of mount() so far
    bbAllMissing,      \* every call of mount() so far threw 'Missing template'
    bbDomLoading,      \* document.readyState is "loading"
    \* back button component (DashboardBackButton)
    btState,           \* "created", "mounted" or "destroyed"
    btSetupTimer,      \* the setTimeout of onMounted has not run yet
    btListening,       \* routeChangeHandler is registered for popstate/hashchange
    btInterval,        \* visibilityInterval is running
    btCheckTimers,     \* setTimeout(() => this.checkVisibility(), 100) not yet run
    btVisible,         \* state.visible
    btHash,            \* window.location.hash
    btRanAfter,        \* checkVisibility has run after the unmount
    \* project dashboard (PTTProjectDashboard)
    pdState,           \* "created", "started" (onWillStart was called), "mounted" or "destroyed"
    pollInterval,      \* this.pollInterval (0: null)
    pdTimers,          \* interval timers of the instance the browser still runs
    pdCreated,         \* setInterval calls made so far
    pdBundle,          \* onWillStart awaits loadBundle
    pdUsers,           \* state.availableUsers is not empty
    pdServerUsers,     \* the server has users to assign tasks to
    pdOps,             \* handlers and timer callbacks that issued an RPC so far
    pdInFlight,        \* reloads in flight: how many of each kind
    pdRefreshing,      \* state.refreshing
    pdStartedAfter,    \* the timer started a refresh after the unmount
    pdNote,            \* the notification refreshDashboard showed last
    pdPaging,          \* state.taskPage / taskPages and activityPage / activityPages
    pdPageReqs,        \* RPCs of the pagination handlers in flight: a bag
    pdPresets,         \* load-preset RPCs in flight
    pdAssign,          \* assign-task RPCs in flight
    \* dashboard editor (DashboardEditor)
    edState,           \* "created", "starting" (onWillStart was called) or "rendered"
    edLoading,         \* state.loading
    edMetrics,         \* state.metrics
    edLayout,          \* state.layout was assigned from a layout searchRead
    edServer,          \* the ptt.dashboard.metric.config records on the server
    edDragged,         \* state.draggedItem
    edWrites,          \* orm.write calls of updateMetricSequence in flight: a bag
    edToggles,         \* orm.write calls of toggleVisibility in flight
    edCalls,           \* loadConfiguration calls at one of their awaits: a bag
    edOps,             \* toggleVisibility and saveChanges calls so far
    edDrops,           \* drops that issued a write so far
    edErrors,          \* console.error calls so far
    \* the browser
    today,             \* new Date(): the day, counted from 1 January
    tzEast,            \* the time zone is east of UTC
    \* which component the behaviour exercises
    focus

statsVars == <<overview, reps, loading, overviewPromise, repPromises,
               memoOverview, memoRep, fetches, calls, invCount, last, win>>

homeVars == <<homeData, salesData, calendarData, lastFetch, homeLoading, clock,
              hpending, nFetch, homeDataInv, lastCall, todos, hInv>>

ctlVars == <<activeTab, kpis, ctlLoading, ctlError, kdone>>
salesVars == <<sdData, sdLoading, sdStartDate, sdEndDate,
                sdDateRange, sdReqs, sdN, sdFailed>>
bbVars == <<bbComponent, bbMounted, mountRetries, bbTimers,
             bbUrl, bbChecked, bbAttempts, bbAllMissing, bbDomLoading>>
btVars == <<btState, btSetupTimer, btListening, btInterval,
             btCheckTimers, btVisible, btHash, btRanAfter>>
pdVars == <<pdState, pollInterval, pdTimers, pdCreated, pdBundle, pdUsers, pdServerUsers, pdOps,
             pdInFlight, pdRefreshing, pdStartedAfter, pdNote, pdPaging, pdPageReqs, pdPresets, pdAssign>>
edVars == <<edState, edLoading, edMetrics, edLayout, edServer, edDragged,
             edWrites, edToggles, edCalls, edOps, edDrops, edErrors>>
calVars == <<calEvents, calStages, calVisible, calSelectedDate, calSelectedEvents, calMyOnly,
              calMonth, calDateRange, calStartDate, calEndDate, calLoading, calReqs, calN>>

\* The browser: the day and the time zone, fixed while a page is open.
envVars == <<today, tzEast>>

\* The components that only read the services.
uiVars == <<ctlVars, salesVars, bbVars, btVars, pdVars, edVars, calVars>>

vars == <<statsVars, homeVars, uiVars, envVars, focus>>

\* What a step of one component leaves alone.
outsideStats == <<homeVars, uiVars, envVars, focus>>
outsideHome == <<statsVars, uiVars, envVars, focus>>
outsideCtl == <<homeVars, salesVars, bbVars, btVars,
                 pdVars, edVars, calVars, envVars, focus>>
outsideSales == <<statsVars, homeVars, ctlVars, bbVars, btVars,
                   pdVars, edVars, calVars, envVars, focus>>
outsideBb == <<statsVars, homeVars, ctlVars, salesVars, btVars,
                pdVars, edVars, calVars, envVars, focus>>
outsideBt == <<statsVars, homeVars, ctlVars, salesVars, bbVars,
                pdVars, edVars, calVars, envVars, focus>>
outsidePd == <<statsVars, homeVars, ctlVars, salesVars, bbVars,
                btVars, edVars, calVars, envVars, focus>>
outsideEd == <<statsVars, homeVars, ctlVars, salesVars, bbVars,
                btVars, pdVars, calVars, envVars, focus>>
outsideCal == <<statsVars, homeVars, ctlVars, salesVars, bbVars,
                 btVars, pdVars, edVars, envVars, focus>>

\* ------------------------------------------------------------------ values
\* A result object is identified by the backend call that produced it (each
\* builds a new object); row tells the record the backend answered with from
\* the {} of `widget[0] || {}`. The payload is opaque to the services.
NoVal == [fid |-> 0, row |-> FALSE]
Val(f, row) == [fid |-> f, row |-> row]

\* What the backend can answer to a searchRead with limit 1: a row or none.
Rows == BOOLEAN

\* A promise handed to a caller: settled with a value, or following a fetch.
NoPromise == [kind |-> "none", fid |-> 0, val |-> NoVal]
Resolved(v) == [kind |-> "value", fid |-> 0, val |-> v]
Following(f) == [kind |-> "fetch", fid |-> f, val |-> NoVal]

Pending(f) == f.step \in {"search", "create", "reread"}

\* The fetch sequences of key k still in flight (indexes into fetches[k]).
InFlight(k) == {i \in 1..Len(fetches[k]) : Pending(fetches[k][i])}

\* The value the reactive statistics object holds for key k.
Stored(k) == IF k = OVERVIEW THEN overview ELSE reps[k]

Cached(k) == IF k = OVERVIEW THEN overview # NoVal ELSE reps[k] # NoVal

\* The outcome a caller of key k holding promise p observes.
Outcome(k, p) ==
    IF p.kind = "value" THEN [st |-> "ok", val |-> p.val]
    ELSE IF p.kind = "none" THEN [st |-> "pending", val |-> NoVal]
    ELSE LET f == fetches[k][p.fid] IN
         IF f.step = "done" THEN [st |-> "ok", val |-> f.result]
         ELSE IF f.step = "failed" THEN [st |-> "failed", val |-> Val(p.fid, FALSE)]
         ELSE [st |-> "pending", val |-> NoVal]

InitStats ==
    /\ overview = NoVal
    /\ reps = [r \in RepIds |-> NoVal]
    /\ loading = FALSE
    /\ overviewPromise = 0
    /\ repPromises = [r \in RepIds |-> 0]
    /\ memoOverview = NoPromise
    /\ memoRep = [r \in RepIds |-> NoPromise]
    /\ fetches = [k \in Keys |-> <<>>]
    /\ calls = [k \in Keys |-> <<>>]
    /\ invCount = 0
    /\ last = [k \in Keys |-> [ev |-> "none", fid |-> 0]]
    /\ win = [k \in Keys |-> 0]

\* ------------------------------------------------------------------ memoize
\* memoize(func) of @web/core/utils/functions: `if (!cache.has(args[0]))
\* cache.set(args[0], func(...args)); return cache.get(...args)`. The cache
\* is private to the wrapper and nothing ever removes an entry.
MemoHas_never(entry) == FALSE

MemoHas(entry) == entry.kind # "none"

RECURSIVE SumLen(_, _)
SumLen(f, S) ==
    IF S = {} THEN 0
    ELSE LET k == CHOOSE x \in S : TRUE IN Len(f[k]) + SumLen(f, S \ {k})

\* Load calls issued so far, over all keys.
NCalls == SumLen(calls, Keys)

\* The record of one call, with what the key looked like when it was issued.
CallRec(k, p, started) ==
    [p |-> p, started |-> started, inv |-> invCount,
     cached |-> Cached(k), inflight |-> InFlight(k),
     prev |-> last[k].ev, prevFid |-> last[k].fid, win |-> win[k]]

NewFetch(k) ==
    [step |-> "search", result |-> NoVal, inv |-> invCount, win |-> win[k]]

Issue(k, p, started) == calls' = [calls EXCEPT ![k] = Append(@, CallRec(k, p, started))]

StartFetch(k) == fetches' = [fetches EXCEPT ![k] = Append(@, NewFetch(k))]

Note(k, ev, fid) == last' = [last EXCEPT ![k] = [ev |-> ev, fid |-> fid]]

\* ------------------------------------------------------------------ loadStatistics
\* The async function given to memoize (lines 37-86), run up to its return.
loadStatisticsBody ==
    IF overview # NoVal THEN
        /\ memoOverview' = Resolved(overview)
        /\ Issue(OVERVIEW, Resolved(overview), FALSE)
        /\ UNCHANGED <<loading, overviewPromise, fetches, last>>
    ELSE IF overviewPromise # 0 THEN
        /\ memoOverview' = Following(overviewPromise)
        /\ Issue(OVERVIEW, Following(overviewPromise), FALSE)
        /\ UNCHANGED <<loading, overviewPromise, fetches, last>>
    ELSE
        LET id == Len(fetches[OVERVIEW]) + 1 IN
        /\ loading' = TRUE
        /\ StartFetch(OVERVIEW)
        /\ overviewPromise' = id
        /\ memoOverview' = Following(id)
        /\ Issue(OVERVIEW, Following(id), TRUE)
        /\ Note(OVERVIEW, "start", id)

\* loadStatistics with neither the memoize wrapper nor the early returns of
\* lines 39-46: every call goes to the backend.
loadStatistics_uncached ==
    /\ NCalls < MaxCalls
    /\ LET id == Len(fetches[OVERVIEW]) + 1 IN
       /\ loading' = TRUE
       /\ StartFetch(OVERVIEW)
       /\ overviewPromise' = id
       /\ memoOverview' = Following(id)
       /\ Issue(OVERVIEW, Following(id), TRUE)
       /\ Note(OVERVIEW, "start", id)
    /\ UNCHANGED <<overview, reps, repPromises, memoRep, invCount, win>>
    /\ UNCHANGED outsideStats

\* statisticsService.loadStatistics(), as seen by the service.
loadStatisticsCall ==
    /\ NCalls < MaxCalls
    /\ IF MemoHas(memoOverview) THEN
           /\ Issue(OVERVIEW, memoOverview, FALSE)
           /\ UNCHANGED <<memoOverview, loading, overviewPromise, fetches, last>>
       ELSE loadStatisticsBody
    /\ UNCHANGED <<overview, reps, repPromises, memoRep, invCount, win>>

loadStatistics ==
    /\ loadStatisticsCall
    /\ UNCHANGED outsideStats

\* The end of the sequence, lines 71-77.
overviewSucceeds(i, row) ==
    /\ fetches' = [fetches EXCEPT ![OVERVIEW][i].step = "done",
                                  ![OVERVIEW][i].result = Val(i, row)]
    /\ overview' = Val(i, row)
    /\ loading' = FALSE
    /\ overviewPromise' = 0
    /\ Note(OVERVIEW, "ok", i)

\* The continuation after `await orm.searchRead(...)` of line 53: a row ends
\* the sequence, no row goes on to _get_or_create_widget (line 62).
searchReturns(i, rows) ==
    /\ fetches[OVERVIEW][i].step = "search"
    /\ IF rows THEN overviewSucceeds(i, TRUE)
       ELSE /\ fetches' = [fetches EXCEPT ![OVERVIEW][i].step = "create"]
            /\ UNCHANGED <<overview, loading, overviewPromise, last>>
    /\ UNCHANGED <<reps, repPromises, memoOverview, memoRep, calls, invCount, win>>
    /\ UNCHANGED outsideStats

\* `await orm.call(..., '_get_or_create_widget', [])` returns (line 62); the
\* second searchRead is issued.
createReturns(i) ==
    /\ fetches[OVERVIEW][i].step = "create"
    /\ fetches' = [fetches EXCEPT ![OVERVIEW][i].step = "reread"]
    /\ UNCHANGED <<overview, reps, loading, overviewPromise, repPromises,
                   memoOverview, memoRep, calls, invCount, last, win>>
    /\ UNCHANGED outsideStats

\* The second searchRead returns (lines 63-77): widget[0] || {}.
rereadReturns(i, rows) ==
    /\ fetches[OVERVIEW][i].step = "reread"
    /\ overviewSucceeds(i, rows)
    /\ UNCHANGED <<reps, repPromises, memoOverview, memoRep, calls, invCount, win>>
    /\ UNCHANGED outsideStats

\* The catch of lines 78-82 without `statistics.loading = false`.
overviewFails_keepsLoading(i) ==
    /\ Pending(fetches[OVERVIEW][i])
    /\ fetches' = [fetches EXCEPT ![OVERVIEW][i].step = "failed"]
    /\ overviewPromise' = 0
    /\ Note(OVERVIEW, "failed", i)
    /\ UNCHANGED <<overview, reps, loading, repPromises, memoOverview, memoRep, calls,
                   invCount, win>>
    /\ UNCHANGED outsideStats

\* Any backend call of the sequence rejects: the catch of lines 78-82.
overviewFails(i) ==
    /\ Pending(fetches[OVERVIEW][i])
    /\ fetches' = [fetches EXCEPT ![OVERVIEW][i].step = "failed"]
    /\ loading' = FALSE
    /\ overviewPromise' = 0
    /\ Note(OVERVIEW, "failed", i)
    /\ UNCHANGED <<overview, reps, repPromises, memoOverview, memoRep, calls,
                   invCount, win>>
    /\ UNCHANGED outsideStats

\* ------------------------------------------------------------------ loadRepStatistics
\* The async function given to memoize (lines 93-127), run up to its return.
loadRepStatisticsBody(repId) ==
    IF reps[repId] # NoVal THEN
        /\ memoRep' = [memoRep EXCEPT ![repId] = Resolved(reps[repId])]
        /\ Issue(repId, Resolved(reps[repId]), FALSE)
        /\ UNCHANGED <<repPromises, fetches, last>>
    ELSE IF repPromises[repId] # 0 THEN
        /\ memoRep' = [memoRep EXCEPT ![repId] = Following(repPromises[repId])]
        /\ Issue(repId, Following(repPromises[repId]), FALSE)
        /\ UNCHANGED <<repPromises, fetches, last>>
    ELSE
        LET id == Len(fetches[repId]) + 1 IN
        /\ StartFetch(repId)
        /\ repPromises' = [repPromises EXCEPT ![repId] = id]
        /\ memoRep' = [memoRep EXCEPT ![repId] = Following(id)]
        /\ Issue(repId, Following(id), TRUE)
        /\ Note(repId, "start", id)

\* statisticsService.loadRepStatistics(repId), as seen by the service.
loadRepStatisticsCall(repId) ==
    /\ NCalls < MaxCalls
    /\ IF MemoHas(memoRep[repId]) THEN
           /\ Issue(repId, memoRep[repId], FALSE)
           /\ UNCHANGED <<memoRep, repPromises, fetches, last>>
       ELSE loadRepStatisticsBody(repId)
    /\ UNCHANGED <<overview, reps, loading, overviewPromise, memoOverview, invCount, win>>

loadRepStatistics(repId) ==
    /\ loadRepStatisticsCall(repId)
    /\ UNCHANGED outsideStats

\* The continuation after `await orm.searchRead('ptt.sales.rep', ...)`
\* (lines 113-118): rep[0] || {}.
repSearchReturns(repId, i, rows) ==
    /\ fetches[repId][i].step = "search"
    /\ fetches' = [fetches EXCEPT ![repId][i].step = "done",
                                  ![repId][i].result = Val(i, rows)]
    /\ reps' = [reps EXCEPT ![repId] = Val(i, rows)]
    /\ repPromises' = [repPromises EXCEPT ![repId] = 0]
    /\ Note(repId, "ok", i)
    /\ UNCHANGED <<overview, loading, overviewPromise, memoOverview, memoRep,
                   calls, invCount, win>>
    /\ UNCHANGED outsideStats

\* The searchRead rejects: the catch of lines 119-122.
repFails(repId, i) ==
    /\ fetches[repId][i].step = "search"
    /\ fetches' = [fetches EXCEPT ![repId][i].step = "failed"]
    /\ repPromises' = [repPromises EXCEPT ![repId] = 0]
    /\ Note(repId, "failed", i)
    /\ UNCHANGED <<overview, reps, loading, overviewPromise, memoOverview, memoRep,
                   calls, invCount, win>>
    /\ UNCHANGED outsideStats

\* ------------------------------------------------------------------ invalidateCache
\* What invalidateCache() leaves behind in the bookkeeping of the properties:
\* per key, whether it cleared a cached value with no fetch in flight.
NoteInvalidate ==
    /\ invCount' = invCount + 1
    /\ last' = [k \in Keys |->
                 [ev |-> IF Cached(k) /\ InFlight(k) = {} THEN "invalCached" ELSE "inval",
                  fid |-> 0]]
    /\ win' = [k \in Keys |-> IF Cached(k) THEN win[k] + 1 ELSE win[k]]

\* invalidateCache that forgets statistics.reps.
invalidateCache_keepsReps ==
    /\ invCount < MaxInv
    /\ overview' = NoVal
    /\ overviewPromise' = 0
    /\ repPromises' = [r \in RepIds |-> 0]
    /\ NoteInvalidate
    /\ UNCHANGED <<reps, loading, memoOverview, memoRep, fetches, calls>>
    /\ UNCHANGED outsideStats

\* Lines 132-137. The memoize caches are out of its reach.
invalidateCache ==
    /\ invCount < MaxInv
    /\ overview' = NoVal
    /\ reps' = [r \in RepIds |-> NoVal]
    /\ overviewPromise' = 0
    /\ repPromises' = [r \in RepIds |-> 0]
    /\ NoteInvalidate
    /\ UNCHANGED <<loading, memoOverview, memoRep, fetches, calls>>
    /\ UNCHANGED outsideStats

NextStats ==
    \/ loadStatistics
    \/ \E r \in RepIds : loadRepStatistics(r)
    \/ \E i \in 1..Len(fetches[OVERVIEW]), rows \in Rows : searchReturns(i, rows)
    \/ \E i \in 1..Len(fetches[OVERVIEW]) : createReturns(i)
    \/ \E i \in 1..Len(fetches[OVERVIEW]), rows \in Rows : rereadReturns(i, rows)
    \/ \E i \in 1..Len(fetches[OVERVIEW]) : overviewFails(i)
    \/ \E r \in RepIds : \E i \in 1..Len(fetches[r]), rows \in Rows : repSearchReturns(r, i, rows)
    \/ \E r \in RepIds : \E i \in 1..Len(fetches[r]) : repFails(r, i)
    \/ invalidateCache

\* ------------------------------------------------------------------ home service
CACHE_DURATION == 60000

TodoOps == {"create", "toggle", "delete"}

NoCall ==
    [issued |-> FALSE, force |-> FALSE, now |-> 0, hit |-> FALSE, val |-> NoVal,
     fid |-> 0, inv |-> 0, cachedVal |-> NoVal, cachedAt |-> 0, cachedInv |-> 0,
     pend |-> {}]

InitHome ==
    /\ homeData = NoVal
    /\ salesData = NoVal
    /\ calendarData = NoVal
    /\ lastFetch = 0
    /\ homeLoading = FALSE
    /\ clock = TickMs
    /\ hpending = {}
    /\ nFetch = 0
    /\ homeDataInv = 0
    /\ lastCall = NoCall
    /\ todos = [op \in TodoOps |-> 0]
    /\ hInv = 0

\* The test of line 35.
CacheFresh(forceRefresh, now) ==
    /\ ~forceRefresh
    /\ homeData # NoVal
    /\ lastFetch # 0
    /\ now - lastFetch < CACHE_DURATION

\* The record of a getHomeSummary() call, with what the cache looked like
\* when it was issued; fid is the backend call it made (0: none).
HomeCallRec(forceRefresh, hit, fid) ==
    [issued |-> TRUE, force |-> forceRefresh, now |-> clock, hit |-> hit,
     val |-> IF hit THEN homeData ELSE NoVal, fid |-> fid, inv |-> hInv,
     cachedVal |-> homeData, cachedAt |-> lastFetch, cachedInv |-> homeDataInv,
     pend |-> hpending]

\* getHomeSummary, lines 33-41: up to the return of line 36 or the await of
\* line 41.
getHomeSummary(forceRefresh) ==
    /\ IF CacheFresh(forceRefresh, clock) THEN
           /\ lastCall' = HomeCallRec(forceRefresh, TRUE, 0)
           /\ UNCHANGED <<homeLoading, hpending, nFetch>>
       ELSE
           /\ nFetch < MaxHomeFetches
           /\ homeLoading' = TRUE
           /\ nFetch' = nFetch + 1
           /\ hpending' = hpending \cup
                  {[id |-> nFetch + 1, now |-> clock, inv |-> hInv, force |-> forceRefresh]}
           /\ lastCall' = HomeCallRec(forceRefresh, FALSE, nFetch + 1)
    /\ UNCHANGED <<homeData, salesData, calendarData, lastFetch, clock, homeDataInv,
                   todos, hInv>>
    /\ UNCHANGED outsideHome

\* orm.call("ptt.home.data", "get_home_summary") returns: lines 42-47.
homeSummaryReturns(f) ==
    /\ f \in hpending
    /\ hpending' = hpending \ {f}
    /\ homeData' = Val(f.id, TRUE)
    /\ lastFetch' = f.now
    /\ homeDataInv' = f.inv
    /\ homeLoading' = FALSE
    /\ UNCHANGED <<salesData, calendarData, clock, nFetch, lastCall, todos, hInv>>
    /\ UNCHANGED outsideHome

\* The call rejects: the finally of lines 45-47, the error goes to the caller.
homeSummaryFails(f) ==
    /\ f \in hpending
    /\ hpending' = hpending \ {f}
    /\ homeLoading' = FALSE
    /\ UNCHANGED <<homeData, salesData, calendarData, lastFetch, clock, nFetch,
                   homeDataInv, lastCall, todos, hInv>>
    /\ UNCHANGED outsideHome

\* The assignments of invalidateCache, lines 146-151.
clearHomeCache ==
    /\ homeData' = NoVal
    /\ salesData' = NoVal
    /\ calendarData' = NoVal
    /\ lastFetch' = 0
    /\ hInv' = hInv + 1
    /\ UNCHANGED homeDataInv

TodosInFlight == todos["create"] + todos["toggle"] + todos["delete"]

homeInvalidateCache ==
    /\ hInv + TodosInFlight < MaxHomeInv
    /\ clearHomeCache
    /\ UNCHANGED <<homeLoading, clock, hpending, nFetch, lastCall, todos>>
    /\ UNCHANGED outsideHome

\* createPersonalTodo / togglePersonalTodo / deletePersonalTodo up to their
\* await (lines 122, 131, 139).
startTodo(op) ==
    /\ hInv + TodosInFlight < MaxHomeInv
    /\ todos' = [todos EXCEPT ![op] = @ + 1]
    /\ UNCHANGED <<homeData, salesData, calendarData, lastFetch, homeLoading, clock,
                   hpending, nFetch, homeDataInv, lastCall, hInv>>
    /\ UNCHANGED outsideHome

\* The mutation returns: this.invalidateCache() (lines 123, 132, 140).
todoReturns(op) ==
    /\ todos[op] > 0
    /\ todos' = [todos EXCEPT ![op] = @ - 1]
    /\ clearHomeCache
    /\ UNCHANGED <<homeLoading, clock, hpending, nFetch, lastCall>>
    /\ UNCHANGED outsideHome

\* The mutation rejects: the error goes to the caller, the cache is kept.
todoFails(op) ==
    /\ todos[op] > 0
    /\ todos' = [todos EXCEPT ![op] = @ - 1]
    /\ UNCHANGED <<homeData, salesData, calendarData, lastFetch, homeLoading, clock,
                   hpending, nFetch, homeDataInv, lastCall, hInv>>
    /\ UNCHANGED outsideHome

\* Time passes.
tick ==
    /\ clock < TickMs * MaxTicks
    /\ clock' = clock + TickMs
    /\ UNCHANGED <<homeData, salesData, calendarData, lastFetch, homeLoading,
                   hpending, nFetch, homeDataInv, lastCall, todos, hInv>>
    /\ UNCHANGED outsideHome

NextHome ==
    \/ \E forceRefresh \in BOOLEAN : getHomeSummary(forceRefresh)
    \/ \E f \in hpending : homeSummaryReturns(f)
    \/ \E f \in hpending : homeSummaryFails(f)
    \/ homeInvalidateCache
    \/ \E op \in TodoOps : startTodo(op)
    \/ \E op \in TodoOps : todoReturns(op)
    \/ \E op \in TodoOps : todoFails(op)
    \/ tick

\* ------------------------------------------------------------------ dashboard controller
\* PttDashboardController (dashboard_controller.js). A tab id is 'overview'
\* or 'rep_' followed by the id of the sales rep.
Tabs == {<<"overview", 0>>} \cup {<<"rep_", r>> : r \in RepIds}

\* parseInt(tabId.replace('rep_', '')), line 65.
repIdOf(tabId) == tabId[2]

\* The statistics entry loadKpis(tabId) reads.
TabKey(tabId) == IF tabId = <<"overview", 0>> THEN OVERVIEW ELSE repIdOf(tabId)

\* state.kpis: the object and the entry it came from (-1: the initial {}).
NoKpis == [key |-> 0 - 1, val |-> NoVal]

InitCtl ==
    /\ activeTab = <<"overview", 0>>
    /\ kpis = NoKpis
    /\ ctlLoading = TRUE
    /\ ctlError = FALSE
    /\ kdone = [k \in Keys |-> 0]

\* A loadKpis call whose awaited promise has settled and whose continuation
\* has not run yet. Continuations are microtasks: they run before the next
\* event (a click, a backend answer) is handled.
Awaited(k) == kdone[k] + 1
Runnable(k) ==
    /\ Awaited(k) <= Len(calls[k])
    /\ Outcome(k, calls[k][Awaited(k)].p).st # "pending"

\* No continuation is waiting to run: the next event is handled.
Idle == \A k \in Keys : ~Runnable(k)

\* The component is rendered once the loadKpis of onWillStart has returned.
Rendered == kdone[OVERVIEW] >= 1

\* loadKpis(tabId) up to its await (lines 53-61 and 65-67).
loadKpis(tabId) ==
    /\ ctlLoading' = TRUE
    /\ ctlError' = FALSE
    /\ IF tabId = <<"overview", 0>>
       THEN loadStatisticsCall
       ELSE loadRepStatisticsCall(repIdOf(tabId))
    /\ UNCHANGED <<kpis, kdone>>

\* onWillStart(async () => { await this.loadKpis('overview'); }), lines 34-36.
onWillStart ==
    /\ NCalls = 0
    /\ loadKpis(<<"overview", 0>>)
    /\ UNCHANGED activeTab
    /\ UNCHANGED outsideCtl

\* Lines 108-111: the load is started and not awaited.
onTabChange(tabId) ==
    /\ Rendered
    /\ Idle
    /\ activeTab' = tabId
    /\ loadKpis(tabId)
    /\ UNCHANGED outsideCtl

\* The entry of key k in the cache of memoize.
Memo(k) == IF k = OVERVIEW THEN memoOverview ELSE memoRep[k]

\* refreshData(), lines 39-44: invalidateCache() (lines 132-137 of the
\* service) and then loadKpis(activeTab) up to its await. The active tab has
\* been loaded before, so memoize answers the call with the promise it holds.
refreshData ==
    /\ Rendered
    /\ Idle
    /\ invCount < MaxInv
    /\ NCalls < MaxCalls
    /\ LET k == TabKey(activeTab) IN
       /\ MemoHas(Memo(k))
       /\ overview' = NoVal
       /\ reps' = [r \in RepIds |-> NoVal]
       /\ overviewPromise' = 0
       /\ repPromises' = [r \in RepIds |-> 0]
       /\ NoteInvalidate
       /\ calls' = [calls EXCEPT ![k] = Append(@,
                      [p |-> Memo(k), started |-> FALSE, inv |-> invCount + 1,
                       cached |-> FALSE, inflight |-> InFlight(k),
                       prev |-> last'[k].ev, prevFid |-> last'[k].fid, win |-> win'[k]])]
    /\ ctlLoading' = TRUE
    /\ ctlError' = FALSE
    /\ UNCHANGED <<loading, memoOverview, memoRep, fetches, activeTab, kpis, kdone>>
    /\ UNCHANGED outsideCtl

\* retryLoad(), lines 89-92: loadKpis(activeTab) again.
retryLoad ==
    /\ Rendered
    /\ Idle
    /\ loadKpis(activeTab)
    /\ UNCHANGED activeTab
    /\ UNCHANGED outsideCtl

\* loadKpis after its await, for the oldest waiting call of key k: lines
\* 63 / 69 and 77-79 when the promise resolved, the catch of lines 80-83
\* when it rejected, and the finally of line 85.
kpisContinue(k) ==
    /\ Runnable(k)
    /\ LET o == Outcome(k, calls[k][Awaited(k)].p) IN
       IF o.st = "ok"
       THEN /\ kpis' = [key |-> k, val |-> IF Stored(k) # NoVal THEN Stored(k) ELSE o.val]
            /\ UNCHANGED ctlError
       ELSE /\ ctlError' = TRUE
            /\ UNCHANGED kpis
    /\ ctlLoading' = FALSE
    /\ kdone' = [kdone EXCEPT ![k] = @ + 1]
    /\ UNCHANGED <<activeTab, statsVars>>
    /\ UNCHANGED outsideCtl

\* The controller on top of the statistics service.
NextController ==
    \/ onWillStart
    \/ \E t \in Tabs : onTabChange(t)
    \/ refreshData
    \/ retryLoad
    \/ \E k \in Keys : kpisContinue(k)
    \/ Idle /\ \E i \in 1..Len(fetches[OVERVIEW]), rows \in Rows : searchReturns(i, rows)
    \/ Idle /\ \E i \in 1..Len(fetches[OVERVIEW]) : createReturns(i)
    \/ Idle /\ \E i \in 1..Len(fetches[OVERVIEW]), rows \in Rows : rereadReturns(i, rows)
    \/ Idle /\ \E i \in 1..Len(fetches[OVERVIEW]) : overviewFails(i)
    \/ Idle /\ \E r \in RepIds : \E i \in 1..Len(fetches[r]), rows \in Rows :
                   repSearchReturns(r, i, rows)
    \/ Idle /\ \E r \in RepIds : \E i \in 1..Len(fetches[r]) : repFails(r, i)

\* ------------------------------------------------------------------ sales dashboard
\* SalesDashboard (src/unnamed/part_012). A day is counted from 1 January of
\* the current year (day 1), taken to be 2026; days of the year before are
\* 0, -1, ...
DaysBefore == <<0, 31, 59, 90, 120, 151, 181, 212, 243, 273, 304, 334, 365>>

\* new Date(year, m, 1) for any month index m (years of 365 days).
MonthStart(m) == 365 * (m \div 12) + DaysBefore[(m % 12) + 1] + 1

\* now.getMonth(), now.getDate(), now.getDay() (0: Sunday).
getMonth(now) == CHOOSE m \in 0..11 : MonthStart(m) <= now /\ now < MonthStart(m + 1)
getDate(now) == now - MonthStart(getMonth(now)) + 1
getDay(now) == (now + 3) % 7

\* new Date(year, m, d): days outside the month roll over.
NewDate(m, d) == MonthStart(m) + d - 1

\* date.toISOString().split('T')[0] of a local midnight (line 49): the UTC
\* day, which is the day before in a time zone east of UTC.
formatDateForInput(date) == IF tzEast THEN date - 1 ELSE date

Ranges == {"this_week", "this_month", "last_month", "ytd", "this_quarter"}

\* The switch of setDateRange (lines 80-101): <<startDate, endDate>>, or
\* <<>> for a range it does not know.
RangeDates(range, now) ==
    LET month == getMonth(now)
        diff == getDate(now) - getDay(now) + (IF getDay(now) = 0 THEN 0 - 6 ELSE 1)
    IN  CASE range = "this_week" -> <<NewDate(month, diff), NewDate(month, diff + 6)>>
          [] range = "this_month" -> <<NewDate(month, 1), NewDate(month + 1, 0)>>
          [] range = "last_month" -> <<NewDate(month - 1, 1), NewDate(month, 0)>>
          [] range = "ytd" -> <<NewDate(0, 1), NewDate(month, getDate(now))>>
          [] OTHER -> <<>>

\* The days the component is opened on: Sunday 4 January, Friday 30 October.
Todays == {4, 303}

NoData == [id |-> 0, start |-> 0, end |-> 0]

\* The browser when a date-driven component is exercised, and otherwise.
InitEnv == today \in Todays /\ tzEast \in BOOLEAN
InitEnvFixed == today = 303 /\ tzEast = FALSE

InitSales ==
    /\ sdData = NoData
    /\ sdLoading = TRUE
    /\ sdStartDate = formatDateForInput(NewDate(getMonth(today), 1))
    /\ sdEndDate = formatDateForInput(NewDate(getMonth(today) + 1, 0))
    /\ sdDateRange = "this_month"
    /\ sdReqs = {}
    /\ sdN = 0
    /\ sdFailed = FALSE

\* loadData() up to its await (lines 52-63), with the dates it sends.
loadData(start, end) ==
    /\ sdN < MaxLoads
    /\ sdLoading' = TRUE
    /\ sdN' = sdN + 1
    /\ sdReqs' = sdReqs \cup {[id |-> sdN + 1, start |-> start, end |-> end]}
    /\ UNCHANGED <<sdData, sdFailed>>

\* onWillStart(async () => { await this.loadData(); }), lines 38-40.
salesOnWillStart ==
    /\ sdN = 0
    /\ loadData(sdStartDate, sdEndDate)
    /\ UNCHANGED <<sdStartDate, sdEndDate, sdDateRange>>
    /\ UNCHANGED outsideSales

\* The component is rendered once the loadData of onWillStart has returned.
SalesRendered == sdN >= 1 /\ \A r \in sdReqs : r.id # 1

\* Lines 44-46.
salesRefreshData ==
    /\ SalesRendered
    /\ loadData(sdStartDate, sdEndDate)
    /\ UNCHANGED <<sdStartDate, sdEndDate, sdDateRange>>
    /\ UNCHANGED outsideSales

\* Lines 71-74.
onDateChange ==
    /\ SalesRendered
    /\ sdDateRange' = "custom"
    /\ loadData(sdStartDate, sdEndDate)
    /\ UNCHANGED <<sdStartDate, sdEndDate>>
    /\ UNCHANGED outsideSales

\* Lines 76-107: the load is started and not awaited.
setDateRange(range) ==
    /\ SalesRendered
    /\ LET dates == RangeDates(range, today) IN
       IF dates = <<>> THEN UNCHANGED salesVars
       ELSE /\ sdStartDate' = formatDateForInput(dates[1])
            /\ sdEndDate' = formatDateForInput(dates[2])
            /\ sdDateRange' = range
            /\ loadData(formatDateForInput(dates[1]), formatDateForInput(dates[2]))
    /\ UNCHANGED outsideSales

\* The orm.call resolves: the assignment of line 55 and the finally.
loadDataReturns(r) ==
    /\ r \in sdReqs
    /\ sdData' = r
    /\ sdLoading' = FALSE
    /\ sdReqs' = sdReqs \ {r}
    /\ UNCHANGED <<sdStartDate, sdEndDate, sdDateRange, sdN, sdFailed>>
    /\ UNCHANGED outsideSales

\* The orm.call rejects: the catch of lines 64-65 and the finally.
loadDataFails(r) ==
    /\ r \in sdReqs
    /\ sdLoading' = FALSE
    /\ sdFailed' = TRUE
    /\ sdReqs' = sdReqs \ {r}
    /\ UNCHANGED <<sdData, sdStartDate, sdEndDate, sdDateRange, sdN>>
    /\ UNCHANGED outsideSales

NextSales ==
    \/ salesOnWillStart
    \/ salesRefreshData
    \/ onDateChange
    \/ \E range \in Ranges : setDateRange(range)
    \/ \E r \in sdReqs : loadDataReturns(r)
    \/ \E r \in sdReqs : loadDataFails(r)

\* ------------------------------------------------------------------ event calendar
\* EventCalendarFull (src/unnamed/part_011). The events the backend knows:
\* one of the user on the day the page is opened, one of somebody else the
\* day after, in different stages.
CalStageIds == {1, 2}

CalEvent(id, date, stage, mine) ==
    [id |-> id, event_date |-> date, stage_id |-> stage, is_mine |-> mine]

AllEvents == {CalEvent(1, today, 1, TRUE), CalEvent(2, today + 1, 2, FALSE)}

\* What get_event_calendar_data can answer to a request.
Answers(my) == {evs \in SUBSET AllEvents : my => \A e \in evs : e.is_mine}

\* The days of the grid a click is made on.
CalDays == {today, today + 1}

\* _formatDateStr(date), lines 111-116: the local day.
formatDateStr(date) == date

\* Month index of a day of this year or of the end of the year before.
MonthOfDay(d) == IF d < 1 THEN 0 - 1 ELSE getMonth(d)

\* get filteredEvents (lines 122-134); a stage with no entry in
\* visibleStages is "unset".
filteredEvents(events, visible) ==
    IF \E st \in CalStageIds : visible[st] # "unset"
    THEN {e \in events : visible[e.stage_id] # "hidden"}
    ELSE events

\* getEventsForDate(dateStr), lines 136-138.
getEventsForDate(events, visible, dateStr) ==
    {e \in filteredEvents(events, visible) : e.event_date = dateStr}

InitCalendar ==
    /\ calEvents = {}
    /\ calStages = {}
    /\ calVisible = [st \in CalStageIds |-> "unset"]
    /\ calSelectedDate = 0
    /\ calSelectedEvents = {}
    /\ calMyOnly = FALSE
    /\ calMonth = getMonth(today)
    /\ calDateRange = "this_month"
    /\ calStartDate = formatDateForInput(NewDate(getMonth(today), 1))
    /\ calEndDate = formatDateForInput(NewDate(getMonth(today) + 1, 0))
    /\ calLoading = TRUE
    /\ calReqs = {}
    /\ calN = 0

\* loadCalendarData() up to its await (lines 161-187); my is the
\* my_events_only it sends.
loadCalendarData(my) ==
    /\ calN < MaxCalLoads
    /\ calLoading' = TRUE
    /\ calN' = calN + 1
    /\ calReqs' = calReqs \cup {[id |-> calN + 1, my |-> my]}
    /\ UNCHANGED <<calEvents, calStages, calVisible, calSelectedEvents>>

\* onWillStart(async () => { await this.loadCalendarData(); }), lines 49-51.
calOnWillStart ==
    /\ calN = 0
    /\ loadCalendarData(calMyOnly)
    /\ UNCHANGED <<calSelectedDate, calMyOnly, calMonth, calDateRange, calStartDate,
                   calEndDate>>
    /\ UNCHANGED outsideCal

\* The component is rendered once the first load has returned; that load
\* selects today.
CalRendered == calSelectedDate # 0

\* The orm.call resolves: lines 189-206.
calendarDataReturns(r, evs) ==
    /\ r \in calReqs
    /\ evs \in Answers(r.my)
    /\ calReqs' = calReqs \ {r}
    /\ calEvents' = evs
    /\ calStages' = CalStageIds
    /\ calVisible' = IF \A st \in CalStageIds : calVisible[st] = "unset"
                     THEN [st \in CalStageIds |-> "shown"]
                     ELSE calVisible
    /\ IF calSelectedDate = 0
       THEN /\ calSelectedDate' = formatDateStr(today)
            /\ calSelectedEvents' = getEventsForDate(evs, calVisible', formatDateStr(today))
       ELSE UNCHANGED <<calSelectedDate, calSelectedEvents>>
    /\ calLoading' = FALSE
    /\ UNCHANGED <<calMyOnly, calMonth, calDateRange, calStartDate, calEndDate, calN>>
    /\ UNCHANGED outsideCal

\* The orm.call rejects: the finally of lines 205-207 (there is no catch).
calendarDataFails(r) ==
    /\ r \in calReqs
    /\ calReqs' = calReqs \ {r}
    /\ calLoading' = FALSE
    /\ UNCHANGED <<calEvents, calStages, calVisible, calSelectedDate, calSelectedEvents,
                   calMyOnly, calMonth, calDateRange, calStartDate, calEndDate, calN>>
    /\ UNCHANGED outsideCal

\* Lines 210-217.
onPrevMonth ==
    /\ CalRendered
    /\ calMonth' = calMonth - 1
    /\ loadCalendarData(calMyOnly)
    /\ UNCHANGED <<calSelectedDate, calMyOnly, calDateRange, calStartDate, calEndDate>>
    /\ UNCHANGED outsideCal

\* Lines 219-226.
onNextMonth ==
    /\ CalRendered
    /\ calMonth' = calMonth + 1
    /\ loadCalendarData(calMyOnly)
    /\ UNCHANGED <<calSelectedDate, calMyOnly, calDateRange, calStartDate, calEndDate>>
    /\ UNCHANGED outsideCal

\* Lines 228-232.
onToday ==
    /\ CalRendered
    /\ calMonth' = getMonth(today)
    /\ calSelectedDate' = formatDateStr(today)
    /\ loadCalendarData(calMyOnly)
    /\ UNCHANGED <<calMyOnly, calDateRange, calStartDate, calEndDate>>
    /\ UNCHANGED outsideCal

\* Lines 234-237.
onToggleMyEvents ==
    /\ CalRendered
    /\ calMyOnly' = ~calMyOnly
    /\ loadCalendarData(~calMyOnly)
    /\ UNCHANGED <<calSelectedDate, calMonth, calDateRange, calStartDate, calEndDate>>
    /\ UNCHANGED outsideCal

\* Lines 239-277.
calSetDateRange(range) ==
    /\ CalRendered
    /\ LET dates == RangeDates(range, today) IN
       IF range = "custom" THEN
           /\ calDateRange' = "custom"
           /\ UNCHANGED <<calEvents, calStages, calVisible, calSelectedDate,
                          calSelectedEvents, calMyOnly, calMonth, calStartDate,
                          calEndDate, calLoading, calReqs, calN>>
       ELSE IF dates = <<>> THEN UNCHANGED calVars
       ELSE /\ calMonth' = MonthOfDay(dates[1])
            /\ calStartDate' = formatDateForInput(dates[1])
            /\ calEndDate' = formatDateForInput(dates[2])
            /\ calDateRange' = range
            /\ loadCalendarData(calMyOnly)
            /\ UNCHANGED <<calSelectedDate, calMyOnly>>
    /\ UNCHANGED outsideCal

\* onDateChange(), lines 279-282: the range becomes 'custom' and the data is
\* loaded again.
calOnDateChange ==
    /\ CalRendered
    /\ calDateRange' = "custom"
    /\ loadCalendarData(calMyOnly)
    /\ UNCHANGED <<calSelectedDate, calMyOnly, calMonth, calStartDate, calEndDate>>
    /\ UNCHANGED outsideCal

\* `!this.state.visibleStages[stageId]` of line 295.
Toggled(v) == IF v = "shown" THEN "hidden" ELSE "shown"

\* Lines 294-298.
onToggleStage(stageId) ==
    /\ CalRendered
    /\ calVisible' = [calVisible EXCEPT ![stageId] = Toggled(@)]
    /\ calSelectedEvents' = getEventsForDate(calEvents, calVisible', calSelectedDate)
    /\ UNCHANGED <<calEvents, calStages, calSelectedDate, calMyOnly, calMonth,
                   calDateRange, calStartDate, calEndDate, calLoading, calReqs, calN>>
    /\ UNCHANGED outsideCal

\* Lines 300-303.
onDayClick(dateStr) ==
    /\ CalRendered
    /\ calSelectedDate' = dateStr
    /\ calSelectedEvents' = getEventsForDate(calEvents, calVisible, dateStr)
    /\ UNCHANGED <<calEvents, calStages, calVisible, calMyOnly, calMonth,
                   calDateRange, calStartDate, calEndDate, calLoading, calReqs, calN>>
    /\ UNCHANGED outsideCal

NextCalendar ==
    \/ calOnWillStart
    \/ \E r \in calReqs : \E evs \in SUBSET AllEvents : calendarDataReturns(r, evs)
    \/ \E r \in calReqs : calendarDataFails(r)
    \/ onPrevMonth
    \/ onNextMonth
    \/ onToday
    \/ onToggleMyEvents
    \/ \E range \in Ranges \cup {"custom"} : calSetDateRange(range)
    \/ calOnDateChange
    \/ \E st \in CalStageIds : onToggleStage(st)
    \/ \E d \in CalDays : onDayClick(formatDateStr(d))

\* ------------------------------------------------------------------ back button service
\* dashboard_back_button_service.js, the version with retries (lines 77-177).
\* destroy() is taken to succeed.
MAX_RETRIES == 10

Urls == {"/odoo/action-ptt_home_hub", "/odoo#action=menu", "/odoo/crm"}

\* currentUrl.includes("ptt_home_hub") || currentUrl.includes("#action=ptt_home_hub")
isDashboard(currentUrl) == currentUrl = "/odoo/action-ptt_home_hub"

\* currentUrl.includes("#action=menu")
isMainMenu(currentUrl) == currentUrl = "/odoo#action=menu"

\* What mount(DashboardBackButton, container, {env}) can do: return, throw
\* 'Missing template', throw something else.
MountOutcomes == {"ok", "missing", "other"}

\* Lines 144-150: the first mountButton is scheduled now or on DOMContentLoaded.
InitBackButtonAt(urls, readyStates) ==
    /\ bbComponent = "none"
    /\ bbMounted = FALSE
    /\ mountRetries = 0
    /\ bbDomLoading \in readyStates
    /\ bbTimers = IF bbDomLoading THEN 0 ELSE 1
    /\ bbUrl \in urls
    /\ bbChecked = FALSE
    /\ bbAttempts = 0
    /\ bbAllMissing = TRUE

InitBackButton == InitBackButtonAt(Urls, BOOLEAN)

\* The service when another component is exercised.
InitBackButtonFixed == InitBackButtonAt({"/odoo/crm"}, {FALSE})

\* mountButton(), lines 98-128, with t timers pending when it is called.
mountButton(outcome, t) ==
    IF bbMounted THEN
        /\ bbTimers' = t
        /\ UNCHANGED <<bbComponent, bbMounted, mountRetries, bbAttempts, bbAllMissing>>
    ELSE
        /\ bbAttempts < MaxAttempts
        /\ bbAttempts' = bbAttempts + 1
        /\ bbAllMissing' = (bbAllMissing /\ outcome = "missing")
        /\ IF outcome = "ok" THEN
               /\ bbComponent' = "button"
               /\ bbMounted' = TRUE
               /\ mountRetries' = 0
               /\ bbTimers' = t
           ELSE IF outcome = "missing" /\ mountRetries < MAX_RETRIES THEN
               /\ mountRetries' = mountRetries + 1
               /\ bbTimers' = t + 1
               /\ UNCHANGED <<bbComponent, bbMounted>>
           ELSE
               /\ bbMounted' = FALSE
               /\ bbTimers' = t
               /\ UNCHANGED <<bbComponent, mountRetries>>

\* unmountButton(), lines 130-140.
unmountButton ==
    /\ IF bbComponent # "none"
       THEN bbComponent' = "none" /\ bbMounted' = FALSE
       ELSE UNCHANGED <<bbComponent, bbMounted>>
    /\ UNCHANGED <<mountRetries, bbTimers, bbAttempts, bbAllMissing>>

\* The DOMContentLoaded listener of lines 145-147.
domContentLoaded ==
    /\ bbDomLoading
    /\ bbDomLoading' = FALSE
    /\ bbTimers' = bbTimers + 1
    /\ UNCHANGED <<bbComponent, bbMounted, mountRetries, bbUrl, bbChecked, bbAttempts,
                   bbAllMissing>>
    /\ UNCHANGED outsideBb

\* A setTimeout(mountButton, ...) callback runs (lines 122, 146, 149).
mountTimerFires(outcome) ==
    /\ bbTimers > 0
    /\ mountButton(outcome, bbTimers - 1)
    /\ UNCHANGED <<bbUrl, bbChecked, bbDomLoading>>
    /\ UNCHANGED outsideBb

\* checkAndUpdate(), lines 153-164: run by popstate and every 500 ms.
checkAndUpdate(outcome) ==
    /\ IF isDashboard(bbUrl) \/ isMainMenu(bbUrl)
       THEN unmountButton
       ELSE mountButton(outcome, bbTimers)
    /\ bbChecked' = TRUE
    /\ UNCHANGED <<bbUrl, bbDomLoading>>
    /\ UNCHANGED outsideBb

\* The mount function the service hands out, lines 170-173: mountButton().
serviceMount(outcome) ==
    /\ mountButton(outcome, bbTimers)
    /\ UNCHANGED <<bbUrl, bbChecked, bbDomLoading>>
    /\ UNCHANGED outsideBb

\* The unmount function the service hands out, lines 170-173: unmountButton().
serviceUnmount ==
    /\ unmountButton
    /\ UNCHANGED <<bbUrl, bbChecked, bbDomLoading>>
    /\ UNCHANGED outsideBb

\* The user goes to another page.
navigate(url) ==
    /\ url # bbUrl
    /\ bbUrl' = url
    /\ bbChecked' = FALSE
    /\ UNCHANGED <<bbComponent, bbMounted, mountRetries, bbTimers, bbAttempts,
                   bbAllMissing, bbDomLoading>>
    /\ UNCHANGED outsideBb

NextBackButton ==
    \/ domContentLoaded
    \/ \E o \in MountOutcomes : mountTimerFires(o)
    \/ \E o \in MountOutcomes : checkAndUpdate(o)
    \/ \E o \in MountOutcomes : serviceMount(o)
    \/ serviceUnmount
    \/ \E url \in Urls : navigate(url)

\* ------------------------------------------------------------------ back button component
\* DashboardBackButton (ptt_super_dashboard/.../dashboard_back_button.js).
Hashes == {"", "#action=ptt_home_hub", "#action=menu", "#action=crm"}

\* checkVisibility(), lines 63-82: the value it gives state.visible.
checkVisibility(hash) ==
    LET hashIsDashboard == hash = "#action=ptt_home_hub"
        hashIsMainMenu == hash \in {"", "#", "#action=menu"}
        hasAction == hash \in {"#action=ptt_home_hub", "#action=menu", "#action=crm"}
    IN  hasAction /\ ~hashIsDashboard /\ ~hashIsMainMenu

InitButton ==
    /\ btState = "created"
    /\ btSetupTimer = FALSE
    /\ btListening = FALSE
    /\ btInterval = FALSE
    /\ btCheckTimers = 0
    /\ btVisible = FALSE
    /\ btHash = ""
    /\ btRanAfter = FALSE

\* A run of checkVisibility, from whichever timer.
runCheckVisibility ==
    /\ btVisible' = checkVisibility(btHash)
    /\ btRanAfter' = (btRanAfter \/ btState = "destroyed")

\* The onMounted hook, lines 35-50: only the 1-second timer is set.
buttonMounted ==
    /\ btState = "created"
    /\ btState' = "mounted"
    /\ btSetupTimer' = TRUE
    /\ UNCHANGED <<btListening, btInterval, btCheckTimers, btVisible, btHash, btRanAfter>>
    /\ UNCHANGED outsideBt

\* The 1-second timer runs, lines 37-49.
delayedSetup ==
    /\ btSetupTimer
    /\ btSetupTimer' = FALSE
    /\ runCheckVisibility
    /\ btListening' = TRUE
    /\ btInterval' = TRUE
    /\ UNCHANGED <<btState, btCheckTimers, btHash>>
    /\ UNCHANGED outsideBt

\* routeChangeHandler, lines 40-42, run by popstate or hashchange.
routeChangeHandler ==
    /\ btListening
    /\ btCheckTimers < MaxCheckTimers
    /\ btCheckTimers' = btCheckTimers + 1
    /\ UNCHANGED <<btState, btSetupTimer, btListening, btInterval, btVisible, btHash,
                   btRanAfter>>
    /\ UNCHANGED outsideBt

\* The 100 ms timer of line 41 runs.
checkTimerFires ==
    /\ btCheckTimers > 0
    /\ btCheckTimers' = btCheckTimers - 1
    /\ runCheckVisibility
    /\ UNCHANGED <<btState, btSetupTimer, btListening, btInterval, btHash>>
    /\ UNCHANGED outsideBt

\* The interval of lines 46-48 ticks.
visibilityIntervalFires ==
    /\ btInterval
    /\ runCheckVisibility
    /\ UNCHANGED <<btState, btSetupTimer, btListening, btInterval, btCheckTimers, btHash>>
    /\ UNCHANGED outsideBt

\* The onWillUnmount hook, lines 52-60.
buttonWillUnmount ==
    /\ btState = "mounted"
    /\ btState' = "destroyed"
    /\ btInterval' = FALSE
    /\ btListening' = FALSE
    /\ UNCHANGED <<btSetupTimer, btCheckTimers, btVisible, btHash, btRanAfter>>
    /\ UNCHANGED outsideBt

\* The user moves to another action.
hashChanges(hash) ==
    /\ hash # btHash
    /\ btHash' = hash
    /\ UNCHANGED <<btState, btSetupTimer, btListening, btInterval, btCheckTimers,
                   btVisible, btRanAfter>>
    /\ UNCHANGED outsideBt

NextButton ==
    \/ buttonMounted
    \/ delayedSetup
    \/ routeChangeHandler
    \/ checkTimerFires
    \/ visibilityIntervalFires
    \/ buttonWillUnmount
    \/ \E h \in Hashes : hashChanges(h)

\* ------------------------------------------------------------------ project dashboard
\* PTTProjectDashboard (ptt_project_management/static/src/js/dashboard.js,
\* the second version, lines 474-1608): polling, refresh, pagination, filters.

\* The paginated tables of the page.
Tables == {"task", "activity"}

\* What a server response says about a page: 1 <= page <= pages.
PageAnswers == {pg \in [page : 1..MaxPages, pages : 1..MaxPages] : pg.page <= pg.pages}

\* The callers that reload the page: onWillStart, refreshDashboard() from the
\* page, refreshDashboard(true) from the poll timer and from assignTask,
\* resetFilters() and applyFilters().
Callers == {"start", "refresh", "poll", "assign", "reset", "filter"}

\* The callers of refreshDashboard, and those that pass silent = true.
Refreshers == {"refresh", "poll", "assign"}

Silent == {"poll", "assign"}

\* A reload in flight: who started it, which await it is at (the data RPCs or
\* renderAllCharts), and whether the data RPCs of a refresh from the page have
\* failed. renderAllCharts (lines 728-887) writes this.charts only: it is
\* followed where something comes after it, in refreshDashboard.
Reloads == [caller : Callers, step : {"data", "charts"}, dataFailed : BOOLEAN]

Reload(caller) == [caller |-> caller, step |-> "data", dataFailed |-> FALSE]

NoNote == [type |-> "none", dataFailed |-> FALSE]

\* The component after setup(), lines 511-632, on a server that has users to
\* assign tasks to (serverUsers) or has none.
InitProjectAt(serverUsers) ==
    /\ pdServerUsers \in serverUsers
    /\ pdState = "created"
    /\ pollInterval = 0
    /\ pdTimers = {}
    /\ pdCreated = 0
    /\ pdBundle = FALSE
    /\ pdUsers = FALSE
    /\ pdOps = 0
    /\ pdInFlight = [c \in Reloads |-> 0]
    /\ pdRefreshing = FALSE
    /\ pdStartedAfter = FALSE
    /\ pdNote = NoNote
    /\ pdPaging = [t \in Tables |-> [page |-> 1, pages |-> 1]]
    /\ pdPageReqs = EmptyBag
    /\ pdPresets = 0
    /\ pdAssign = 0

InitProject == InitProjectAt({TRUE})

\* The hooks, the timer and the data the handlers test.
pdLife == <<pdState, pollInterval, pdTimers, pdCreated, pdBundle, pdStartedAfter,
            pdServerUsers>>

\* The RPCs of the handlers that are not reloads.
pdRpcs == <<pdPageReqs, pdPresets, pdAssign>>

\* A handler that issues an RPC is counted.
Counted == pdOps < MaxOps /\ pdOps' = pdOps + 1

\* refreshDashboard(silent) up to its first await, lines 893-899.
refreshDashboard(caller) ==
    /\ pdRefreshing' = (IF caller \in Silent THEN pdRefreshing ELSE TRUE)
    /\ pdInFlight' = [pdInFlight EXCEPT ![Reload(caller)] = @ + 1]

\* The onWillStart hook up to its first await, lines 604-608: the chart bundle
\* is asked for.
projectWillStart ==
    /\ pdState = "created"
    /\ pdState' = "started"
    /\ pdBundle' = TRUE
    /\ UNCHANGED <<pollInterval, pdTimers, pdCreated, pdStartedAfter, pdServerUsers>>
    /\ UNCHANGED <<pdUsers, pdOps, pdInFlight, pdRefreshing, pdNote, pdPaging, pdRpcs>>
    /\ UNCHANGED outsidePd

\* loadBundle resolves, line 609: loadInitialData issues its RPCs, also in a
\* component that was destroyed meanwhile.
loadBundleReturns ==
    /\ pdBundle
    /\ pdBundle' = FALSE
    /\ pdInFlight' = [pdInFlight EXCEPT ![Reload("start")] = @ + 1]
    /\ UNCHANGED <<pdState, pollInterval, pdTimers, pdCreated, pdStartedAfter, pdServerUsers>>
    /\ UNCHANGED <<pdUsers, pdOps, pdRefreshing, pdNote, pdPaging, pdRpcs>>
    /\ UNCHANGED outsidePd

\* loadBundle rejects: the catch of lines 610-613 ends the hook without a load.
loadBundleFails ==
    /\ pdBundle
    /\ pdBundle' = FALSE
    /\ UNCHANGED <<pdState, pollInterval, pdTimers, pdCreated, pdStartedAfter, pdServerUsers>>
    /\ UNCHANGED <<pdUsers, pdOps, pdInFlight, pdRefreshing, pdNote, pdPaging, pdRpcs>>
    /\ UNCHANGED outsidePd

\* The onMounted hook, lines 615-623, run once onWillStart has returned:
\* setInterval returns a new handle.
projectMounted ==
    /\ pdState = "started"
    /\ ~pdBundle
    /\ pdInFlight[Reload("start")] = 0
    /\ pdState' = "mounted"
    /\ pdCreated' = pdCreated + 1
    /\ pollInterval' = pdCreated + 1
    /\ pdTimers' = pdTimers \cup {pdCreated + 1}
    /\ UNCHANGED <<pdBundle, pdStartedAfter, pdServerUsers>>
    /\ UNCHANGED <<pdUsers, pdOps, pdInFlight, pdRefreshing, pdNote, pdPaging, pdRpcs>>
    /\ UNCHANGED outsidePd

\* onWillUnmount without the clearInterval.
projectWillUnmount_keepsTimer ==
    /\ pdState = "mounted"
    /\ pdState' = "destroyed"
    /\ pollInterval' = 0
    /\ UNCHANGED <<pdTimers, pdCreated, pdBundle, pdStartedAfter, pdServerUsers>>
    /\ UNCHANGED <<pdUsers, pdOps, pdInFlight, pdRefreshing, pdNote, pdPaging, pdRpcs>>
    /\ UNCHANGED outsidePd

\* The onWillUnmount hook, lines 625-631.
projectWillUnmount ==
    /\ pdState = "mounted"
    /\ pdState' = "destroyed"
    /\ IF pollInterval # 0
       THEN pdTimers' = pdTimers \ {pollInterval} /\ pollInterval' = 0
       ELSE UNCHANGED <<pdTimers, pollInterval>>
    /\ UNCHANGED <<pdCreated, pdBundle, pdStartedAfter, pdServerUsers>>
    /\ UNCHANGED <<pdUsers, pdOps, pdInFlight, pdRefreshing, pdNote, pdPaging, pdRpcs>>
    /\ UNCHANGED outsidePd

\* The component is destroyed before it was mounted: no hook runs.
projectDestroyedEarly ==
    /\ pdState \in {"created", "started"}
    /\ pdState' = "destroyed"
    /\ UNCHANGED <<pollInterval, pdTimers, pdCreated, pdBundle, pdStartedAfter, pdServerUsers>>
    /\ UNCHANGED <<pdUsers, pdOps, pdInFlight, pdRefreshing, pdNote, pdPaging, pdRpcs>>
    /\ UNCHANGED outsidePd

\* The interval callback of lines 620-622, for a timer the browser still runs.
pollTimerFires(handle) ==
    /\ handle \in pdTimers
    /\ Counted
    /\ refreshDashboard("poll")
    /\ pdStartedAfter' = (pdStartedAfter \/ pdState = "destroyed")
    /\ UNCHANGED <<pdState, pollInterval, pdTimers, pdCreated, pdBundle, pdServerUsers>>
    /\ UNCHANGED <<pdUsers, pdNote, pdPaging, pdRpcs>>
    /\ UNCHANGED outsidePd

\* refreshDashboard() called from the page (the refresh button).
manualRefresh ==
    /\ pdState = "mounted"
    /\ Counted
    /\ refreshDashboard("refresh")
    /\ UNCHANGED <<pdLife, pdUsers, pdNote, pdPaging, pdRpcs>>
    /\ UNCHANGED outsidePd

\* assignTask(taskId) up to its await, lines 1535-1569 (chosen: the prompt
\* returned a user id): without available users, or without a user id, the
\* method returns; otherwise the assign-task RPC is issued.
assignTask(chosen) ==
    /\ pdState = "mounted"
    /\ IF pdUsers /\ chosen
       THEN Counted /\ pdAssign' = pdAssign + 1
       ELSE UNCHANGED <<pdOps, pdAssign>>
    /\ UNCHANGED <<pdLife, pdUsers, pdInFlight, pdRefreshing, pdNote, pdPaging, pdPageReqs,
                   pdPresets>>
    /\ UNCHANGED outsidePd

\* The assign-task RPC resolves, lines 1571-1584: result.success leads to
\* refreshDashboard(true), whether or not the component is still mounted.
assignTaskReturns(success) ==
    /\ pdAssign > 0
    /\ pdAssign' = pdAssign - 1
    /\ IF success THEN refreshDashboard("assign") ELSE UNCHANGED <<pdInFlight, pdRefreshing>>
    /\ UNCHANGED <<pdLife, pdUsers, pdOps, pdNote, pdPaging, pdPageReqs, pdPresets>>
    /\ UNCHANGED outsidePd

\* The assign-task RPC rejects: the catch of lines 1585-1591.
assignTaskFails ==
    /\ pdAssign > 0
    /\ pdAssign' = pdAssign - 1
    /\ UNCHANGED <<pdLife, pdUsers, pdOps, pdInFlight, pdRefreshing, pdNote, pdPaging,
                   pdPageReqs, pdPresets>>
    /\ UNCHANGED outsidePd

\* The reloads that await the data RPCs of loadInitialData.
Loading == {c \in Reloads : c.step = "data" /\ c.caller # "filter" /\ pdInFlight[c] > 0}

\* What is in flight once the loadInitialData of reload c has returned:
\* refreshDashboard goes on to renderAllCharts.
AfterData(c, failed) ==
    IF c.caller \in Refreshers
    THEN [pdInFlight EXCEPT
             ![c] = @ - 1,
             ![[c EXCEPT !.step = "charts",
                         !.dataFailed = failed /\ c.caller = "refresh"]] = @ + 1]
    ELSE [pdInFlight EXCEPT ![c] = @ - 1]

\* The Promise.all of loadInitialData resolves, lines 639-684: the page numbers
\* of both tables are taken from the responses, the assignable users from the
\* filter options.
loadInitialDataReturns(c, tasks, activities) ==
    /\ c \in Loading
    /\ pdPaging' = [pdPaging EXCEPT !["task"] = tasks, !["activity"] = activities]
    /\ pdUsers' = pdServerUsers
    /\ pdInFlight' = AfterData(c, FALSE)
    /\ UNCHANGED <<pdLife, pdOps, pdRefreshing, pdNote, pdRpcs>>
    /\ UNCHANGED outsidePd

\* One of the RPCs of loadInitialData rejects: the catch of lines 685-688 logs
\* the error and returns normally, so the caller goes on as after a load.
loadInitialDataFails(c) ==
    /\ c \in Loading
    /\ pdInFlight' = AfterData(c, TRUE)
    /\ UNCHANGED <<pdLife, pdUsers, pdOps, pdRefreshing, pdNote, pdPaging, pdRpcs>>
    /\ UNCHANGED outsidePd

\* The notification refreshDashboard shows, lines 901-915.
Notification(c, ok) ==
    [type |-> IF ok THEN "success" ELSE "danger", dataFailed |-> c.dataFailed]

\* The refreshDashboard calls that await renderAllCharts.
Drawing == {c \in Reloads : c.step = "charts" /\ c.caller \in Refreshers /\ pdInFlight[c] > 0}

\* renderAllCharts settles in a refreshDashboard call (ok: it resolved): the
\* notification of lines 901-915 unless silent, then the finally of lines
\* 916-918.
refreshSettles(c, ok) ==
    /\ c \in Drawing
    /\ pdInFlight' = [pdInFlight EXCEPT ![c] = @ - 1]
    /\ pdNote' = (IF c.caller \in Silent THEN pdNote ELSE Notification(c, ok))
    /\ pdRefreshing' = FALSE
    /\ UNCHANGED <<pdLife, pdUsers, pdOps, pdPaging, pdRpcs>>
    /\ UNCHANGED outsidePd

\* A pagination handler, lines 1104-1154: when go holds, the RPC for the page
\* is issued.
requestPage(table, go, page) ==
    /\ pdState = "mounted"
    /\ IF go
       THEN Counted /\ pdPageReqs' = pdPageReqs (+) SetToBag({[table |-> table, page |-> page]})
       ELSE UNCHANGED <<pdOps, pdPageReqs>>
    /\ UNCHANGED <<pdLife, pdUsers, pdInFlight, pdRefreshing, pdNote, pdPaging, pdPresets,
                   pdAssign>>
    /\ UNCHANGED outsidePd

\* prevTaskPage / prevActivityPage, lines 1104-1115 and 1130-1141.
prevPage(table) ==
    requestPage(table, pdPaging[table].page > 1, pdPaging[table].page - 1)

\* nextTaskPage / nextActivityPage without the test of the page count.
nextPage_always(table) ==
    requestPage(table, TRUE, pdPaging[table].page + 1)

\* nextTaskPage / nextActivityPage, lines 1117-1128 and 1143-1154.
nextPage(table) ==
    requestPage(table, pdPaging[table].page < pdPaging[table].pages, pdPaging[table].page + 1)

prevTaskPage == prevPage("task")

nextTaskPage == nextPage("task")

prevActivityPage == prevPage("activity")

nextActivityPage == nextPage("activity")

\* The RPC of a pagination handler resolves: page and pages are taken from the
\* response, lines 1111-1113.
pageReturns(r, answer) ==
    /\ BagIn(r, pdPageReqs)
    /\ pdPageReqs' = pdPageReqs (-) SetToBag({r})
    /\ pdPaging' = [pdPaging EXCEPT ![r.table] = answer]
    /\ UNCHANGED <<pdLife, pdUsers, pdOps, pdInFlight, pdRefreshing, pdNote, pdPresets,
                   pdAssign>>
    /\ UNCHANGED outsidePd

\* The RPC of a pagination handler rejects: the handler ends at its await.
pageFails(r) ==
    /\ BagIn(r, pdPageReqs)
    /\ pdPageReqs' = pdPageReqs (-) SetToBag({r})
    /\ UNCHANGED <<pdLife, pdUsers, pdOps, pdInFlight, pdRefreshing, pdNote, pdPaging,
                   pdPresets, pdAssign>>
    /\ UNCHANGED outsidePd

\* applyFilters up to its Promise.all, lines 1304-1343, called from the page.
\* applyDatePreset, setDatePeriod and applyCustomDateRange (lines 1261-1302)
\* reach it without an await.
applyFilters ==
    /\ pdState = "mounted"
    /\ Counted
    /\ pdInFlight' = [pdInFlight EXCEPT ![Reload("filter")] = @ + 1]
    /\ UNCHANGED <<pdLife, pdUsers, pdRefreshing, pdNote, pdPaging, pdRpcs>>
    /\ UNCHANGED outsidePd

applyDatePreset == applyFilters

setDatePeriod == applyFilters

applyCustomDateRange == applyFilters

\* resetFilters up to the await of loadInitialData, lines 1373-1395.
resetFilters ==
    /\ pdState = "mounted"
    /\ Counted
    /\ pdInFlight' = [pdInFlight EXCEPT ![Reload("reset")] = @ + 1]
    /\ UNCHANGED <<pdLife, pdUsers, pdRefreshing, pdNote, pdPaging, pdRpcs>>
    /\ UNCHANGED outsidePd

\* loadFilterPreset(ev) up to its await, lines 1444-1453 (chosen: the select
\* has a preset id): the load-preset RPC is issued.
loadFilterPreset(chosen) ==
    /\ pdState = "mounted"
    /\ IF chosen
       THEN Counted /\ pdPresets' = pdPresets + 1
       ELSE UNCHANGED <<pdOps, pdPresets>>
    /\ UNCHANGED <<pdLife, pdUsers, pdInFlight, pdRefreshing, pdNote, pdPaging, pdPageReqs,
                   pdAssign>>
    /\ UNCHANGED outsidePd

\* The load-preset RPC resolves, lines 1455-1476: result.success leads to
\* applyFilters, whether or not the component is still mounted.
loadFilterPresetReturns(success) ==
    /\ pdPresets > 0
    /\ pdPresets' = pdPresets - 1
    /\ pdInFlight' = (IF success THEN [pdInFlight EXCEPT ![Reload("filter")] = @ + 1]
                      ELSE pdInFlight)
    /\ UNCHANGED <<pdLife, pdUsers, pdOps, pdRefreshing, pdNote, pdPaging, pdPageReqs,
                   pdAssign>>
    /\ UNCHANGED outsidePd

\* The load-preset RPC rejects: the catch of lines 1483-1489.
loadFilterPresetFails ==
    /\ pdPresets > 0
    /\ pdPresets' = pdPresets - 1
    /\ UNCHANGED <<pdLife, pdUsers, pdOps, pdInFlight, pdRefreshing, pdNote, pdPaging,
                   pdPageReqs, pdAssign>>
    /\ UNCHANGED outsidePd

\* The Promise.all of applyFilters resolves, lines 1345-1370: both tables are
\* at the page the responses name.
applyFiltersReturns(tasksData, activitiesData) ==
    /\ pdInFlight[Reload("filter")] > 0
    /\ pdPaging' = [pdPaging EXCEPT !["task"] = tasksData, !["activity"] = activitiesData]
    /\ pdInFlight' = [pdInFlight EXCEPT ![Reload("filter")] = @ - 1]
    /\ UNCHANGED <<pdLife, pdUsers, pdOps, pdRefreshing, pdNote, pdRpcs>>
    /\ UNCHANGED outsidePd

\* The Promise.all of applyFilters rejects: applyFilters has no catch.
applyFiltersFails ==
    /\ pdInFlight[Reload("filter")] > 0
    /\ pdInFlight' = [pdInFlight EXCEPT ![Reload("filter")] = @ - 1]
    /\ UNCHANGED <<pdLife, pdUsers, pdOps, pdRefreshing, pdNote, pdPaging, pdRpcs>>
    /\ UNCHANGED outsidePd

\* The component from setup() to its destruction, and the RPCs that settle
\* afterwards.
NextProject ==
    \/ projectWillStart
    \/ loadBundleReturns
    \/ loadBundleFails
    \/ projectMounted
    \/ projectWillUnmount
    \/ projectDestroyedEarly
    \/ \E h \in pdTimers : pollTimerFires(h)
    \/ manualRefresh
    \/ \E chosen \in BOOLEAN : assignTask(chosen)
    \/ \E success \in BOOLEAN : assignTaskReturns(success)
    \/ assignTaskFails
    \/ \E c \in Loading, tasks \in PageAnswers, activities \in PageAnswers :
          loadInitialDataReturns(c, tasks, activities)
    \/ \E c \in Loading : loadInitialDataFails(c)
    \/ \E c \in Drawing, ok \in BOOLEAN : refreshSettles(c, ok)
    \/ prevTaskPage
    \/ nextTaskPage
    \/ prevActivityPage
    \/ nextActivityPage
    \/ \E r \in BagToSet(pdPageReqs), answer \in PageAnswers : pageReturns(r, answer)
    \/ \E r \in BagToSet(pdPageReqs) : pageFails(r)
    \/ applyFilters
    \/ applyDatePreset
    \/ setDatePeriod
    \/ applyCustomDateRange
    \/ resetFilters
    \/ \E chosen \in BOOLEAN : loadFilterPreset(chosen)
    \/ \E success \in BOOLEAN : loadFilterPresetReturns(success)
    \/ loadFilterPresetFails
    \/ \E tasksData \in PageAnswers, activitiesData \in PageAnswers :
          applyFiltersReturns(tasksData, activitiesData)
    \/ applyFiltersFails

\* ------------------------------------------------------------------ dashboard editor
\* DashboardEditor (src/unnamed/part_007): drag-and-drop reordering of the
\* metrics of a tab.

\* The ids of the ptt.dashboard.metric.config records.
Metrics == 1..MaxMetrics

EditorTabs == {"sales", "operations"}

\* The sequence numbers the records start with.
Sequences == {10 * i : i \in 1..MaxMetrics}

\* The orders in which searchRead may return the records.
Orders == {p \in [1..MaxMetrics -> Metrics] : \A i, j \in 1..MaxMetrics : p[i] = p[j] => i = j}

\* The records as searchRead returns them, in the given order.
searchRead(server, order) ==
    [i \in 1..MaxMetrics |->
        [id |-> order[i], tab_assignment |-> server[order[i]].tab_assignment,
         sequence |-> server[order[i]].sequence]]

\* metrics.filter(m => m.tab_assignment === tab)
filterByTab(metrics, tab) ==
    LET InTab(m) == m.tab_assignment = tab
    IN SelectSeq(metrics, InTab)

\* The place of m in a list sorted by sequence, after the items that compare
\* equal to it: Array.prototype.sort is stable.
RECURSIVE insertBySequence(_, _)
insertBySequence(sorted, m) ==
    IF sorted = <<>> THEN <<m>>
    ELSE IF Head(sorted).sequence <= m.sequence
         THEN <<Head(sorted)>> \o insertBySequence(Tail(sorted), m)
         ELSE <<m>> \o sorted

\* items.sort((a, b) => a.sequence - b.sequence)
RECURSIVE sortBySequence(_)
sortBySequence(items) ==
    IF items = <<>> THEN <<>>
    ELSE insertBySequence(sortBySequence(SubSeq(items, 1, Len(items) - 1)),
                          items[Len(items)])

\* getMetricsByTab(tab), lines 122-126, of a metrics array.
metricsByTab(metrics, tab) == sortBySequence(filterByTab(metrics, tab))

getMetricsByTab(tab) == metricsByTab(edMetrics, tab)

\* items.findIndex(m => m.id === id): the 0-based index, or -1.
findIndex(items, id) ==
    IF \E i \in 1..Len(items) : items[i].id = id
    THEN (CHOOSE i \in 1..Len(items) :
              items[i].id = id /\ \A j \in 1..(i - 1) : items[j].id # id) - 1
    ELSE -1

\* The ids of a list of records, without one of them.
idsWithout(items, id) ==
    LET Other(m) == m.id # id
        rest == SelectSeq(items, Other)
    IN [i \in 1..Len(rest) |-> rest[i].id]

\* state.draggedItem: the id and the tab of the item, null as NoItem.
NoItem == [id |-> 0, tab_assignment |-> "none"]

\* What the canvas showed when an item was dropped: the tab of the item, the
\* index it was dropped on, the index the item was shown at, the other items
\* of the tab in the order shown, and whether the index is one of the tab.
NoDrop == [id |-> 0, tab |-> "none", target |-> 0, shown |-> 0, others |-> <<>>,
           within |-> FALSE]

\* The editor after setup(), lines 16-32, with the records the server has.
InitEditorAt(tabs, sequences) ==
    /\ edServer \in [Metrics -> [tab_assignment : tabs, sequence : sequences]]
    /\ edState = "created"
    /\ edLoading = TRUE
    /\ edMetrics = <<>>
    /\ edLayout = FALSE
    /\ edDragged = NoItem
    /\ edWrites = EmptyBag
    /\ edToggles = 0
    /\ edCalls = EmptyBag
    /\ edOps = 0
    /\ edDrops = 0
    /\ edErrors = 0

\* Metrics 1 and 2 on the sales tab, metric 3 on either tab, with any of the
\* sequence numbers.
InitEditor ==
    /\ InitEditorAt(EditorTabs, Sequences)
    /\ edServer[1].tab_assignment = "sales"
    /\ edServer[2].tab_assignment = "sales"

InitEditorFixed == InitEditorAt({"sales"}, {10})

\* loadConfiguration() up to its first await, lines 34-42: state.loading is
\* set and the metric searchRead is issued. caller is "onWillStart",
\* "updateMetricSequence", "toggleVisibility" or "saveChanges"; drop is the
\* drop the call reloads for, NoDrop for the other callers.
loadConfiguration(caller, drop) ==
    /\ edLoading' = TRUE
    /\ edCalls' = edCalls (+) SetToBag({[caller |-> caller, step |-> "metrics", drop |-> drop]})

\* The onWillStart hook, lines 29-31.
editorWillStart ==
    /\ edState = "created"
    /\ edState' = "starting"
    /\ loadConfiguration("onWillStart", NoDrop)
    /\ UNCHANGED <<edMetrics, edLayout, edServer, edDragged, edWrites, edToggles, edOps, edDrops,
                   edErrors>>
    /\ UNCHANGED outsideEd

\* onDragStart(ev, item), lines 59-62, on an item of state.metrics.
onDragStart(item) ==
    /\ edState = "rendered"
    /\ \E i \in 1..Len(edMetrics) :
          /\ edMetrics[i].id = item
          /\ edDragged' = [id |-> item, tab_assignment |-> edMetrics[i].tab_assignment]
    /\ UNCHANGED <<edState, edLoading, edMetrics, edLayout, edServer, edWrites, edToggles,
                   edCalls, edOps, edDrops, edErrors>>
    /\ UNCHANGED outsideEd

\* updateMetricSequence(metricId, newSequence) up to its await, lines 85-89:
\* the orm.write is issued.
updateMetricSequence(metricId, newSequence, drop) ==
    /\ edDrops < MaxDrops
    /\ edDrops' = edDrops + 1
    /\ edWrites' = edWrites (+) SetToBag({[metricId |-> metricId, sequence |-> newSequence,
                                           drop |-> drop]})

\* onDrop(ev, targetIndex), lines 69-83; without a dragged item only
\* state.draggedItem is written.
onDrop(targetIndex) ==
    LET draggedItem == edDragged
        items == filterByTab(edMetrics, draggedItem.tab_assignment)
        draggedIndex == findIndex(items, draggedItem.id)
        newSequence == targetIndex * 10
        shown == getMetricsByTab(draggedItem.tab_assignment)
        drop == [id |-> draggedItem.id, tab |-> draggedItem.tab_assignment,
                 target |-> targetIndex, shown |-> findIndex(shown, draggedItem.id),
                 others |-> idsWithout(shown, draggedItem.id),
                 within |-> targetIndex < Len(shown)]
    IN /\ edState = "rendered"
       /\ IF draggedItem # NoItem /\ draggedIndex # -1 /\ targetIndex # draggedIndex
          THEN updateMetricSequence(draggedItem.id, newSequence, drop)
          ELSE UNCHANGED <<edWrites, edDrops>>
       /\ edDragged' = NoItem
       /\ UNCHANGED <<edState, edLoading, edMetrics, edLayout, edServer, edToggles, edCalls,
                      edOps, edErrors>>
       /\ UNCHANGED outsideEd

\* The orm.write of updateMetricSequence resolves, lines 85-90: the record has
\* its new sequence and loadConfiguration starts.
writeReturns(w) ==
    /\ BagIn(w, edWrites)
    /\ edWrites' = edWrites (-) SetToBag({w})
    /\ edServer' = [edServer EXCEPT ![w.metricId].sequence = w.sequence]
    /\ loadConfiguration("updateMetricSequence", w.drop)
    /\ UNCHANGED <<edState, edMetrics, edLayout, edDragged, edToggles, edOps, edDrops, edErrors>>
    /\ UNCHANGED outsideEd

\* The orm.write rejects: the catch of lines 91-93 logs the error.
writeFails(w) ==
    /\ BagIn(w, edWrites)
    /\ edWrites' = edWrites (-) SetToBag({w})
    /\ edErrors' = edErrors + 1
    /\ UNCHANGED <<edState, edLoading, edMetrics, edLayout, edServer, edDragged, edToggles,
                   edCalls, edOps, edDrops>>
    /\ UNCHANGED outsideEd

\* toggleVisibility(metricId, currentVisible) up to its await, lines 100-104:
\* the write of the visible flag is issued.
toggleVisibility(metricId) ==
    /\ edState = "rendered"
    /\ edOps < MaxEditorOps
    /\ edOps' = edOps + 1
    /\ edToggles' = edToggles + 1
    /\ UNCHANGED <<edState, edLoading, edMetrics, edLayout, edServer, edDragged, edWrites,
                   edCalls, edDrops, edErrors>>
    /\ UNCHANGED outsideEd

\* The write of the visible flag resolves, line 105: loadConfiguration starts.
toggleReturns ==
    /\ edToggles > 0
    /\ edToggles' = edToggles - 1
    /\ loadConfiguration("toggleVisibility", NoDrop)
    /\ UNCHANGED <<edState, edMetrics, edLayout, edServer, edDragged, edWrites, edOps, edDrops,
                   edErrors>>
    /\ UNCHANGED outsideEd

\* The write of the visible flag rejects: the catch of lines 106-108 logs
\* the error.
toggleFails ==
    /\ edToggles > 0
    /\ edToggles' = edToggles - 1
    /\ edErrors' = edErrors + 1
    /\ UNCHANGED <<edState, edLoading, edMetrics, edLayout, edServer, edDragged, edWrites,
                   edCalls, edOps, edDrops>>
    /\ UNCHANGED outsideEd

\* saveChanges() up to its await, lines 111-115: loadConfiguration starts.
saveChanges ==
    /\ edState = "rendered"
    /\ edOps < MaxEditorOps
    /\ edOps' = edOps + 1
    /\ loadConfiguration("saveChanges", NoDrop)
    /\ UNCHANGED <<edState, edMetrics, edLayout, edServer, edDragged, edWrites, edToggles,
                   edDrops, edErrors>>
    /\ UNCHANGED outsideEd

\* The loadConfiguration calls at their first await, and at their second.
ReadingMetrics == {c \in BagToSet(edCalls) : c.step = "metrics"}

ReadingLayout == {c \in BagToSet(edCalls) : c.step = "layout"}

\* The metric searchRead resolves, lines 38-46: state.metrics is assigned and
\* the layout searchRead is issued.
metricsReadReturns(c, order) ==
    /\ c \in ReadingMetrics
    /\ edMetrics' = searchRead(edServer, order)
    /\ edCalls' = (edCalls (-) SetToBag({c})) (+) SetToBag({[c EXCEPT !.step = "layout"]})
    /\ UNCHANGED <<edState, edLoading, edLayout, edServer, edDragged, edWrites, edToggles,
                   edOps, edDrops, edErrors>>
    /\ UNCHANGED outsideEd

\* A loadConfiguration call ends, lines 54-56: the finally resets
\* state.loading; the editor is rendered once the call of onWillStart ended.
loadConfigurationEnds(c) ==
    /\ edCalls' = edCalls (-) SetToBag({c})
    /\ edLoading' = FALSE
    /\ edState' = (IF c.caller = "onWillStart" THEN "rendered" ELSE edState)

\* The metric searchRead rejects: the catch of lines 52-53 logs the error,
\* state.metrics keeps its value and no layout is read.
metricsReadFails(c) ==
    /\ c \in ReadingMetrics
    /\ edErrors' = edErrors + 1
    /\ loadConfigurationEnds(c)
    /\ UNCHANGED <<edMetrics, edLayout, edServer, edDragged, edWrites, edToggles, edOps, edDrops>>
    /\ UNCHANGED outsideEd

\* The layout searchRead resolves, lines 46-51: state.layout is assigned.
layoutReadReturns(c) ==
    /\ c \in ReadingLayout
    /\ edLayout' = TRUE
    /\ loadConfigurationEnds(c)
    /\ UNCHANGED <<edMetrics, edServer, edDragged, edWrites, edToggles, edOps, edDrops, edErrors>>
    /\ UNCHANGED outsideEd

\* The layout searchRead rejects after state.metrics was assigned: the catch
\* of lines 52-53 logs the error and state.layout keeps its value.
layoutReadFails(c) ==
    /\ c \in ReadingLayout
    /\ edErrors' = edErrors + 1
    /\ loadConfigurationEnds(c)
    /\ UNCHANGED <<edMetrics, edLayout, edServer, edDragged, edWrites, edToggles, edOps, edDrops>>
    /\ UNCHANGED outsideEd

NextEditor ==
    \/ editorWillStart
    \/ \E item \in Metrics : onDragStart(item)
    \/ \E targetIndex \in 0..(MaxMetrics - 1) : onDrop(targetIndex)
    \/ \E w \in BagToSet(edWrites) : writeReturns(w)
    \/ \E w \in BagToSet(edWrites) : writeFails(w)
    \/ \E metricId \in Metrics : toggleVisibility(metricId)
    \/ toggleReturns
    \/ toggleFails
    \/ saveChanges
    \/ \E c \in ReadingMetrics, order \in Orders : metricsReadReturns(c, order)
    \/ \E c \in ReadingMetrics : metricsReadFails(c)
    \/ \E c \in ReadingLayout : layoutReadReturns(c)
    \/ \E c \in ReadingLayout : layoutReadFails(c)

\* ------------------------------------------------------------------ specifications
\* The two services share no state. SpecStats and SpecHome run one of them;
\* SpecServices runs either of them, chosen at the start, with the other at
\* rest in its initial state. The components on top of them have one
\* specification each.
Services == {"stats", "home"}

InitUi == InitCtl /\ InitSales /\ InitCalendar /\ InitButton /\ InitProject

InitWidgets == InitStats /\ InitHome /\ InitUi /\ InitBackButtonFixed

InitRest == InitStats /\ InitHome /\ InitUi /\ InitEditorFixed

\* Everything but the component a specification exercises.
InitFixed == InitEnvFixed /\ InitRest /\ InitBackButtonFixed

Init == focus \in Services /\ InitFixed

InitStatsOnly == focus = "stats" /\ InitFixed

InitHomeOnly == focus = "home" /\ InitFixed

InitController == focus = "controller" /\ InitFixed

InitSalesOnly == focus = "sales" /\ InitEnv /\ InitRest /\ InitBackButtonFixed

InitCalendarOnly == focus = "calendar" /\ InitEnv /\ InitRest /\ InitBackButtonFixed

InitButtonOnly == focus = "button" /\ InitFixed

InitProjectOnly ==
    /\ focus = "project"
    /\ InitEnvFixed /\ InitStats /\ InitHome /\ InitCtl /\ InitSales /\ InitCalendar /\ InitButton
    /\ InitProjectAt(BOOLEAN) /\ InitEditorFixed /\ InitBackButtonFixed

InitEditorOnly == focus = "editor" /\ InitEnvFixed /\ InitWidgets /\ InitEditor

InitBackButtonOnly == focus = "backButton" /\ InitEnvFixed /\ InitRest /\ InitBackButton

NextServices ==
    \/ focus = "stats" /\ loadStatistics
    \/ focus = "stats" /\ \E r \in RepIds : loadRepStatistics(r)
    \/ focus = "stats" /\ \E i \in 1..Len(fetches[OVERVIEW]), rows \in Rows :
                              searchReturns(i, rows)
    \/ focus = "stats" /\ \E i \in 1..Len(fetches[OVERVIEW]) : createReturns(i)
    \/ focus = "stats" /\ \E i \in 1..Len(fetches[OVERVIEW]), rows \in Rows :
                              rereadReturns(i, rows)
    \/ focus = "stats" /\ \E i \in 1..Len(fetches[OVERVIEW]) : overviewFails(i)
    \/ focus = "stats" /\ \E r \in RepIds : \E i \in 1..Len(fetches[r]), rows \in Rows :
                              repSearchReturns(r, i, rows)
    \/ focus = "stats" /\ \E r \in RepIds : \E i \in 1..Len(fetches[r]) : repFails(r, i)
    \/ focus = "stats" /\ invalidateCache
    \/ focus = "home" /\ \E forceRefresh \in BOOLEAN : getHomeSummary(forceRefresh)
    \/ focus = "home" /\ \E f \in hpending : homeSummaryReturns(f)
    \/ focus = "home" /\ \E f \in hpending : homeSummaryFails(f)
    \/ focus = "home" /\ homeInvalidateCache
    \/ focus = "home" /\ \E op \in TodoOps : startTodo(op)
    \/ focus = "home" /\ \E op \in TodoOps : todoReturns(op)
    \/ focus = "home" /\ \E op \in TodoOps : todoFails(op)
    \/ focus = "home" /\ tick

SpecStats == InitStatsOnly /\ [][NextStats]_vars

SpecHome == InitHomeOnly /\ [][NextHome]_vars

SpecServices == Init /\ [][NextServices]_vars

SpecController == InitController /\ [][NextController]_vars

SpecSales == InitSalesOnly /\ [][NextSales]_vars

SpecCalendar == InitCalendarOnly /\ [][NextCalendar]_vars

SpecBackButton == InitBackButtonOnly /\ [][NextBackButton]_vars

SpecButton == InitButtonOnly /\ [][NextButton]_vars

SpecProject == InitProjectOnly /\ [][NextProject]_vars

SpecEditor == InitEditorOnly /\ [][NextEditor]_vars

Spec == SpecServices

\* ------------------------------------------------------------------ statistics service: properties
CallIds(k) == 1..Len(calls[k])

\* The fetch a call is served by: the one its promise follows, or the one
\* that produced the value it was resolved with.
ServedBy(c) == IF c.p.kind = "value" THEN c.p.val.fid ELSE c.p.fid

\* C1: the calls issued for a key during one period without a cached value
\* (from the first load, or from the invalidateCache() that cleared the
\* value, until a fetch stores a value) are all served by one and the same
\* backend fetch, started in that period; so they settle alike.
C1_Coalescing ==
    \A k \in Keys : \A i \in CallIds(k) :
        LET c == calls[k][i] IN
        ~c.cached =>
            /\ c.p.kind = "fetch"
            /\ fetches[k][c.p.fid].win = c.win
            /\ \A j \in CallIds(k) :
                   (~calls[k][j].cached /\ calls[k][j].win = c.win)
                   => /\ calls[k][j].p = c.p
                      /\ Outcome(k, calls[k][j].p) = Outcome(k, c.p)

\* C2: a load issued right after invalidateCache() cleared a cached key
\* (no fetch pending) starts a new backend fetch and is served by it.
C2_InvalidateThenLoadRefetches ==
    \A k \in Keys : \A i \in CallIds(k) :
        LET c == calls[k][i] IN
        c.prev = "invalCached" =>
            /\ c.started
            /\ c.p.kind = "fetch"
            /\ fetches[k][c.p.fid].inv = c.inv

\* C3: the next load after a failed fetch of the key (no invalidation in
\* between) starts a second backend fetch.
C3_ErrorRetry ==
    \A k \in Keys : \A i \in CallIds(k) :
        LET c == calls[k][i] IN
        c.prev = "failed" =>
            /\ c.started
            /\ c.p.kind = "fetch"
            /\ c.p.fid # c.prevFid

\* C4: a load issued after an invalidateCache() is served by a fetch that
\* started after that invalidateCache().
C4_InvalidationNotLost ==
    \A k \in Keys : \A i \in CallIds(k) :
        LET c == calls[k][i] IN
        ServedBy(c) # 0 => fetches[k][ServedBy(c)].inv >= c.inv

\* C5: at most one backend fetch is in flight per key.
C5_OneFetchInFlightPerKey ==
    \A k \in Keys : Cardinality(InFlight(k)) <= 1

\* A load was issued after an invalidateCache() that ran while a fetch of
\* the same key was, and still is, in flight.
C5_Witness ==
    \E k \in Keys : \E i \in CallIds(k) :
        \E f \in calls[k][i].inflight :
            /\ fetches[k][f].inv < calls[k][i].inv
            /\ Pending(fetches[k][f])

\* C6: a load issued after the key's fetch succeeded, with no invalidation
\* since, starts no backend call and resolves with that fetch's value.
C6_CacheHitAvoidsNetwork ==
    \A k \in Keys : \A i \in CallIds(k) :
        LET c == calls[k][i] IN
        c.prev = "ok" =>
            /\ ~c.started
            /\ Outcome(k, c.p).st = "ok"
            /\ Outcome(k, c.p).val = fetches[k][c.prevFid].result

\* Two loads of a key after its fetch succeeded.
C6_Witness ==
    \E k \in Keys : \E i, j \in CallIds(k) :
        /\ i < j
        /\ calls[k][i].prev = "ok"
        /\ calls[k][j].prev = "ok"

\* ------------------------------------------------------------------ home service: properties
\* C7: once a summary is cached, a getHomeSummary() without forceRefresh
\* returns it with no backend call, however much time has elapsed.
C7_NoSilentExpiry ==
    (lastCall.issued /\ ~lastCall.force /\ lastCall.cachedVal # NoVal)
    => /\ lastCall.hit
       /\ lastCall.fid = 0
       /\ lastCall.val = lastCall.cachedVal

\* C8: a getHomeSummary() issued while nothing is cached and an earlier
\* getHomeSummary()'s backend call is still in flight makes no backend call
\* of its own.
C8_HomeCoalescing ==
    (lastCall.issued /\ ~lastCall.force /\ lastCall.cachedVal = NoVal
     /\ \E f \in lastCall.pend : ~f.force)
    => lastCall.fid = 0

\* C9: a summary returned as a cache hit was fetched by a call issued after
\* the latest invalidateCache() that precedes the hit.
C9_HomeInvalidationNotLost ==
    (lastCall.issued /\ lastCall.hit) => lastCall.cachedInv = lastCall.inv

\* ------------------------------------------------------------------ both services: properties
\* C10: the step in which invalidateCache() runs leaves no cached value
\* (statistics.overview null and statistics.reps empty; homeData, salesData,
\* calendarData and lastFetch null) and starts no backend call.
C10_FullReset ==
    [][/\ invCount' # invCount =>
             /\ overview' = NoVal
             /\ reps' = [r \in RepIds |-> NoVal]
             /\ fetches' = fetches
       /\ hInv' # hInv =>
             /\ homeData' = NoVal
             /\ salesData' = NoVal
             /\ calendarData' = NoVal
             /\ lastFetch' = 0
             /\ nFetch' = nFetch
             /\ TodosInFlight' <= TodosInFlight]_vars

\* invalidateCache() has just cleared a cached key of the statistics service.
C10_Witness ==
    \E k \in Keys : last[k].ev = "invalCached" /\ ~Cached(k)

\* ------------------------------------------------------------------ statistics service: scoping and failures
\* C11: with the entries of rep 1 and rep 2 cached, the invalidation made to
\* refresh rep 1 leaves the entry of rep 2 as it is, and the
\* loadRepStatistics(1) that follows it starts one new backend fetch.
C11_InvalidationScoping ==
    [][/\ (invCount' # invCount /\ Cached(1) /\ Cached(2)) => reps'[2] = reps[2]
       /\ (Len(calls'[1]) > Len(calls[1]) /\ last[1].ev = "invalCached")
              => Len(fetches'[1]) = Len(fetches[1]) + 1]_vars

\* The step in which fetch i of key k rejects.
Rejects(k, i) == Pending(fetches[k][i]) /\ fetches'[k][i].step = "failed"

\* Every caller holding the promise of fetch i of key k observes its error.
ErrorReachesCallers(k, i) ==
    \A j \in CallIds(k) :
        ServedBy(calls[k][j]) = i => Outcome(k, calls[k][j].p)'.st = "failed"

\* C12 as stated: when a fetch rejects, its callers get the error, no pending
\* promise stays recorded for the key, the cached value of the key is
\* unchanged and statistics.loading is false.
C12_NoLeakedPendingState ==
    [][\A k \in Keys : \A i \in 1..Len(fetches[k]) :
          Rejects(k, i) =>
              /\ ErrorReachesCallers(k, i)
              /\ loading' = FALSE
              /\ IF k = OVERVIEW
                 THEN overviewPromise' = 0 /\ overview' = overview
                 ELSE repPromises'[k] = 0 /\ reps'[k] = reps[k]]_vars

\* C12 amended: statistics.loading is false after an overview fetch rejects
\* and is left as it was when a rep fetch rejects; the rest as stated.
C12_NoLeakedPendingStatePerKey ==
    [][\A k \in Keys : \A i \in 1..Len(fetches[k]) :
          Rejects(k, i) =>
              /\ ErrorReachesCallers(k, i)
              /\ IF k = OVERVIEW
                 THEN overviewPromise' = 0 /\ overview' = overview /\ loading' = FALSE
                 ELSE repPromises'[k] = 0 /\ reps'[k] = reps[k]
                      /\ loading' = loading]_vars

\* The overview fetch has rejected with two callers waiting on it.
C12_Witness ==
    /\ last[OVERVIEW].ev = "failed"
    /\ Len(calls[OVERVIEW]) >= 2
    /\ \A j \in CallIds(OVERVIEW) : Outcome(OVERVIEW, calls[OVERVIEW][j].p).st = "failed"

\* Outcome(k, p) in the state a step leads to.
OutcomeAfter(k, p) ==
    IF p.kind = "fetch"
    THEN LET f == fetches'[k][p.fid] IN
         IF f.step = "done" THEN [st |-> "ok", val |-> f.result]
         ELSE IF f.step = "failed" THEN [st |-> "failed", val |-> Val(p.fid, FALSE)]
         ELSE [st |-> "pending", val |-> NoVal]
    ELSE Outcome(k, p)

\* C13: whenever a load call of key k resolves with v (at once, or when the
\* fetch it follows succeeds), the reactive statistics object holds v for k,
\* after any sequence of loads and invalidateCache() calls.
C13_SingleSourceOfTruth ==
    [][\A k \in Keys : \A j \in 1..Len(calls'[k]) :
          LET p == calls'[k][j].p
              resolves == /\ OutcomeAfter(k, p).st = "ok"
                          /\ j \in CallIds(k) => Outcome(k, p).st = "pending"
          IN  resolves => Stored(k)' = OutcomeAfter(k, p).val]_vars

\* ------------------------------------------------------------------ dashboard controller: properties
\* Every loadKpis call made so far has run to its end, none with an error.
KpisSettled ==
    /\ Rendered
    /\ \A k \in Keys :
          /\ kdone[k] = Len(calls[k])
          /\ \A j \in CallIds(k) : Outcome(k, calls[k][j].p).st = "ok"

\* C14: once every loadKpis call has settled successfully, state.kpis holds
\* the statistics of state.activeTab.
C14_KpisOfActiveTab ==
    KpisSettled => kpis.key = TabKey(activeTab)

\* ------------------------------------------------------------------ sales dashboard: properties
\* Every loadData call made so far has returned, none with an error.
SalesSettled == SalesRendered /\ sdReqs = {} /\ ~sdFailed

\* C15: once every loadData call has settled successfully, state.data is the
\* answer to the request made with the current state.startDate and
\* state.endDate.
C15_DataOfSelectedRange ==
    SalesSettled => sdData.start = sdStartDate /\ sdData.end = sdEndDate

\* ------------------------------------------------------------------ event calendar: properties
\* C16: whenever no loadCalendarData call is in flight, the day panel shows
\* the events of state.events on state.selectedDate whose stage is visible.
C16_DayPanelMatchesSelection ==
    (CalRendered /\ calReqs = {})
        => calSelectedEvents = getEventsForDate(calEvents, calVisible, calSelectedDate)

\* ------------------------------------------------------------------ back button service: properties
\* C17: while every mount() throws 'Missing template', mountButton attempts
\* the mount at most MAX_RETRIES + 1 times in total.
C17_MountRetriesBounded ==
    bbAllMissing => bbAttempts <= MAX_RETRIES + 1

\* C18: on the dashboard or the main menu, once checkAndUpdate has run since
\* the URL last changed, the button is not mounted, whatever timer fires.
C18_NoButtonOnDashboard ==
    ((isDashboard(bbUrl) \/ isMainMenu(bbUrl)) /\ bbChecked)
        => bbComponent = "none" /\ ~bbMounted

\* ------------------------------------------------------------------ back button component: properties
\* C19: after the unmount no visibility interval runs, no route listener is
\* registered and checkVisibility has not run again.
C19_CleanAfterUnmount ==
    btState = "destroyed" => ~btInterval /\ ~btListening /\ ~btRanAfter

\* ------------------------------------------------------------------ project dashboard: properties
\* C20: the poll timer is created once, on mount, and cleared on unmount; the
\* instance never has more than one poll timer, and the timer starts no
\* refreshDashboard(true) after the unmount.
C20_PollingLifecycle ==
    /\ pdCreated <= 1
    /\ Cardinality(pdTimers) <= 1
    /\ pdState \in {"created", "started"} => pdTimers = {}
    /\ pdState = "mounted" => pdTimers = {pollInterval} /\ pollInterval # 0
    /\ pdState = "destroyed" => pdTimers = {} /\ pollInterval = 0
    /\ ~pdStartedAfter

\* The timer has polled and the component was unmounted while that refresh
\* was in flight.
C20_Witness ==
    /\ pdState = "destroyed" /\ pdCreated = 1
    /\ \E c \in Reloads : c.caller = "poll" /\ pdInFlight[c] > 0

\* A refreshDashboard() call made from the page is in flight.
RefreshInFlight ==
    \E c \in Reloads : c.caller = "refresh" /\ pdInFlight[c] > 0

\* A step in which a refreshDashboard(true) call ends.
SilentRefreshEnds ==
    \E c \in Reloads : c.caller \in Silent /\ c.step = "charts"
                       /\ pdInFlight'[c] < pdInFlight[c]

\* C21: state.refreshing is true while a non-silent refreshDashboard() is in
\* flight, and the end of a silent refreshDashboard(true) leaves
\* state.refreshing as it was.
C21_RefreshIndicator ==
    [][/\ RefreshInFlight' => pdRefreshing'
       /\ SilentRefreshEnds => pdRefreshing' = pdRefreshing]_vars

\* C22: the "Dashboard refreshed" notification is shown only for a refresh
\* whose data RPCs all succeeded; a refresh with a failed data RPC shows the
\* failure notification.
C22_SuccessOnlyAfterReload ==
    pdNote.dataFailed => pdNote.type = "danger"

\* Every table is at a page between 1 and its page count.
PagesInBounds ==
    \A t \in Tables : 1 <= pdPaging[t].page /\ pdPaging[t].page <= pdPaging[t].pages

\* A step issues no pagination RPC but for the page before or after the
\* current one, between 1 and the current page count.
RequestsInBounds ==
    \A r \in BagToSet(pdPageReqs') :
        CopiesIn(r, pdPageReqs') > CopiesIn(r, pdPageReqs) =>
            /\ 1 <= r.page /\ r.page <= pdPaging[r.table].pages
            /\ r.page \in {pdPaging[r.table].page - 1, pdPaging[r.table].page + 1}

\* C23: with responses that satisfy 1 <= page <= pages, every table is at a
\* page between 1 and its page count; a pagination handler requests a page
\* between 1 and the page count it sees, so it requests nothing at the first
\* (prev) or last (next) page.
C23_PaginationBounds ==
    []PagesInBounds /\ [][RequestsInBounds]_vars

\* The task table is on page 2, the prev handler has asked for page 1, and a
\* reload from the filter bar is in flight.
C23_Witness ==
    /\ pdInFlight[Reload("filter")] > 0
    /\ pdPaging["task"].page = 2
    /\ BagIn([table |-> "task", page |-> 1], pdPageReqs)
    /\ pdState = "mounted"

\* ------------------------------------------------------------------ dashboard editor: properties
\* The dropped item is at the index it was dropped on, and the other items
\* of its tab are in the order they were shown in at the drop.
PlacedIn(metrics, drop) ==
    /\ findIndex(metricsByTab(metrics, drop.tab), drop.id) = drop.target
    /\ idsWithout(metricsByTab(metrics, drop.tab), drop.id) = drop.others

\* A step that ends, without an error logged, the loadConfiguration call of a
\* drop on an index of the tab other than the one the item was shown at
\* leaves the item placed.
ReloadPlaces ==
    \A c \in ReadingLayout :
        (/\ c.caller = "updateMetricSequence"
         /\ CopiesIn(c, edCalls') < CopiesIn(c, edCalls)
         /\ edErrors' = edErrors
         /\ c.drop.within
         /\ c.drop.target # c.drop.shown)
        => PlacedIn(edMetrics', c.drop)

\* A step that issues a write issues it for a drop on another index than the
\* one the item was shown at.
OwnIndexNoWrite ==
    \A w \in BagToSet(edWrites') :
        CopiesIn(w, edWrites') > CopiesIn(w, edWrites) => w.drop.target # w.drop.shown

\* C24: once the write and the reload of a drop on another index of the tab
\* have completed, the dropped metric is at targetIndex in getMetricsByTab(tab)
\* and the other metrics of the tab are in the order they had; a drop of a
\* metric on the index it is shown at issues no write.
C24_DropReorders ==
    [][ReloadPlaces /\ OwnIndexNoWrite]_vars

====
